---- MODULE Spec2Model ----
(***************************************************************************)
(* Model of cargo-package-readme-mcp-server: the README documentation      *)
(* extraction pipeline (ReadmeParser, SectionExtractor, CodeAnalyzer) and  *)
(* the getPackageReadme tool with its response cache.                      *)
(*                                                                         *)
(* Documents are character strings.  Every regular expression of the       *)
(* source is modelled by an operator over the characters of the string,    *)
(* so that matching, trimming, splitting and replacing are computed as     *)
(* the JavaScript source computes them.                                    *)
(***************************************************************************)
EXTENDS Integers, Sequences, FiniteSets, TLC

(***************************************************************************)
(* JavaScript string primitives                                            *)
(***************************************************************************)

\* s.charAt(i - 1): the i-th character (1-based), "" outside the string
At(s, i) == IF i >= 1 /\ i <= Len(s) THEN SubSeq(s, i, i) ELSE ""

CharsOf(s) == { SubSeq(s, i, i) : i \in 1..Len(s) }

UpperAlpha == "ABCDEFGHIJKLMNOPQRSTUVWXYZ"

LowerAlpha == "abcdefghijklmnopqrstuvwxyz"

Digits == "0123456789"

\* the regular expression class \s (the characters of it the inputs use)
WhiteSpace == {" ", "\t", "\n", "\r"}

\* the regular expression class \w
WordChars == CharsOf(UpperAlpha) \cup CharsOf(LowerAlpha) \cup CharsOf(Digits) \cup {"_"}

LowerOfChar == [c \in CharsOf(UpperAlpha) |->
                  At(LowerAlpha, CHOOSE i \in 1..Len(UpperAlpha) : At(UpperAlpha, i) = c)]

RECURSIVE toLowerCase(_)
\* String.prototype.toLowerCase
toLowerCase(s) ==
  IF s = "" THEN ""
  ELSE LET c == Head(s)
       IN (IF c \in DOMAIN LowerOfChar THEN LowerOfChar[c] ELSE c) \o toLowerCase(Tail(s))

\* s.startsWith(p, i - 1)
startsWithAt(s, p, i) ==
  /\ i >= 1
  /\ i + Len(p) - 1 <= Len(s)
  /\ SubSeq(s, i, i + Len(p) - 1) = p

\* String.prototype.startsWith
startsWith(s, p) == startsWithAt(s, p, 1)

\* s.indexOf(p, i - 1) + 1: the least position >= i where p occurs, 0 if none
indexOfFrom(s, p, i) ==
  LET last == Len(s) - Len(p) + 1
      Occurs(j) == SubSeq(s, j, j + Len(p) - 1) = p
  IN IF \E j \in i..last : Occurs(j)
     THEN CHOOSE j \in i..last : Occurs(j) /\ \A k \in i..(j - 1) : ~Occurs(k)
     ELSE 0

\* String.prototype.includes
includes(s, p) == indexOfFrom(s, p, 1) # 0

\* the length of the longest run of characters of C in s that starts at position i
RunLen(s, i, C) ==
  LET Stop(j) == j > Len(s) \/ SubSeq(s, j, j) \notin C
  IN IF i > Len(s) THEN 0
     ELSE (CHOOSE j \in i..(Len(s) + 1) : Stop(j) /\ \A k \in i..(j - 1) : ~Stop(k)) - i

\* the length of the longest run of characters outside D in s that starts at position i
RunLenNot(s, i, D) ==
  LET Stop(j) == j > Len(s) \/ SubSeq(s, j, j) \in D
  IN IF i > Len(s) THEN 0
     ELSE (CHOOSE j \in i..(Len(s) + 1) : Stop(j) /\ \A k \in i..(j - 1) : ~Stop(k)) - i

\* the length of the longest run of characters of C in s that ends at position i
RunLenBack(s, i, C) ==
  LET Stop(j) == j < 1 \/ SubSeq(s, j, j) \notin C
  IN IF i < 1 THEN 0
     ELSE i - (CHOOSE j \in 0..i : Stop(j) /\ \A k \in (j + 1)..i : ~Stop(k))

\* s.replace(/\s+$/, ''): the string without its trailing white space
trimEnd(s) == SubSeq(s, 1, Len(s) - RunLenBack(s, Len(s), WhiteSpace))

\* s.replace(/^\s+/, ''): the string without its leading white space
trimStart(s) == SubSeq(s, 1 + RunLen(s, 1, WhiteSpace), Len(s))

\* String.prototype.trim
trim(s) == trimEnd(trimStart(s))

RECURSIVE split(_, _)
\* String.prototype.split with a one-character separator: a sequence of strings
split(s, sep) ==
  LET j == indexOfFrom(s, sep, 1)
  IN IF j = 0 THEN <<s>>
     ELSE <<SubSeq(s, 1, j - 1)>> \o split(SubSeq(s, j + 1, Len(s)), sep)

RECURSIVE join(_, _)
\* Array.prototype.join
join(seq, sep) ==
  IF Len(seq) = 0 THEN ""
  ELSE IF Len(seq) = 1 THEN seq[1]
  ELSE seq[1] \o sep \o join(Tail(seq), sep)

\* Array.prototype.reverse
reverse(seq) == [i \in 1..Len(seq) |-> seq[Len(seq) + 1 - i]]

RECURSIVE collapseWhitespace(_)
\* s.replace(/\s+/g, ' ')
collapseWhitespace(s) ==
  IF s = "" THEN ""
  ELSE IF Head(s) \in WhiteSpace
       THEN LET n == RunLen(s, 1, WhiteSpace)
            IN " " \o collapseWhitespace(SubSeq(s, n + 1, Len(s)))
       ELSE LET n == RunLenNot(s, 1, WhiteSpace)
            IN SubSeq(s, 1, n) \o collapseWhitespace(SubSeq(s, n + 1, Len(s)))

(***************************************************************************)
(* SectionExtractor                                                        *)
(***************************************************************************)

\* a test that also takes the bare usage lines for headers
isHeaderOrBareUsageLine(line) ==
  \/ toLowerCase(trimEnd(line)) \in {"usage", "usage:", "example", "examples", "example:", "examples:"}
  \/ /\ line # ""
     /\ LET h == RunLen(line, 1, {"#"})
        IN h >= 1 /\ h <= 6 /\ At(line, h + 1) \in WhiteSpace

\* the test /^#{1,6}\s/ of extractUsageSections, false on the empty line
isHeader(line) ==
  /\ line # ""
  /\ LET h == RunLen(line, 1, {"#"})
     IN h >= 1 /\ h <= 6 /\ At(line, h + 1) \in WhiteSpace

\* (line.match(/^#+/) || [''])[0].length
headerLevel(line) == RunLen(line, 1, {"#"})

\* the alternatives of USAGE_SECTION_PATTERNS[0], matched case-insensitively
UsageVocabulary ==
  {"usage", "use", "using", "how to use", "getting started", "quick start",
   "example", "examples", "basic usage"}

\* /^#{1,6}\s*(usage|use|...|basic usage)\s*$/gim on one line
matchesHashUsagePattern(line) ==
  LET h == RunLen(line, 1, {"#"})
  IN /\ h >= 1 /\ h <= 6
     /\ toLowerCase(trim(SubSeq(line, h + 1, Len(line)))) \in UsageVocabulary

\* /^usage:?\s*$/gim on one line
matchesBareUsagePattern(line) ==
  toLowerCase(trimEnd(line)) \in {"usage", "usage:"}

\* /^examples?:?\s*$/gim on one line
matchesBareExamplesPattern(line) ==
  toLowerCase(trimEnd(line)) \in {"example", "examples", "example:", "examples:"}

\* SectionExtractor.isUsageHeader: some pattern matches (lastIndex is reset first)
isUsageHeader(line) ==
  \/ matchesHashUsagePattern(line)
  \/ matchesBareUsagePattern(line)
  \/ matchesBareExamplesPattern(line)

\* the locals of extractUsageSections before the first line
ScanStart ==
  [sections |-> <<>>, currentSection |-> <<>>, inUsageSection |-> FALSE, sectionLevel |-> 0]

\* the iteration with a usage header that does not close the open section: the header
\* is taken as content of it
ScanStepNoReopen(st, line, usageHeader) ==
  IF isHeader(line)
  THEN IF usageHeader /\ ~st.inUsageSection
       THEN [st EXCEPT !.currentSection = <<line>>,
                       !.inUsageSection = TRUE,
                       !.sectionLevel = headerLevel(line)]
       ELSE IF st.inUsageSection /\ ~usageHeader /\ headerLevel(line) <= st.sectionLevel
       THEN [st EXCEPT !.sections = Append(st.sections, join(st.currentSection, "\n")),
                       !.currentSection = <<>>,
                       !.inUsageSection = FALSE]
       ELSE IF st.inUsageSection
       THEN [st EXCEPT !.currentSection = Append(@, line)]
       ELSE st
  ELSE IF st.inUsageSection
  THEN [st EXCEPT !.currentSection = Append(@, line)]
  ELSE st

\* the iteration with level < sectionLevel for level <= sectionLevel: a header of the
\* level of the section does not close it
ScanStepStrictLevel(st, line, usageHeader) ==
  IF isHeader(line)
  THEN IF usageHeader
       THEN [st EXCEPT !.sections = IF Len(st.currentSection) > 0
                                    THEN Append(st.sections, join(st.currentSection, "\n"))
                                    ELSE st.sections,
                       !.currentSection = <<line>>,
                       !.inUsageSection = TRUE,
                       !.sectionLevel = headerLevel(line)]
       ELSE IF st.inUsageSection /\ headerLevel(line) < st.sectionLevel
       THEN [st EXCEPT !.sections = IF Len(st.currentSection) > 0
                                    THEN Append(st.sections, join(st.currentSection, "\n"))
                                    ELSE st.sections,
                       !.currentSection = <<>>,
                       !.inUsageSection = FALSE]
       ELSE IF st.inUsageSection
       THEN [st EXCEPT !.currentSection = Append(@, line)]
       ELSE st
  ELSE IF st.inUsageSection
  THEN [st EXCEPT !.currentSection = Append(@, line)]
  ELSE st

\* one iteration of the for loop of extractUsageSections on a header line or another
\* line; usageHeader is the value of this.isUsageHeader(line)
ScanStep(st, line, usageHeader) ==
  IF isHeader(line)
  THEN IF usageHeader
       THEN [st EXCEPT !.sections = IF Len(st.currentSection) > 0
                                    THEN Append(st.sections, join(st.currentSection, "\n"))
                                    ELSE st.sections,
                       !.currentSection = <<line>>,
                       !.inUsageSection = TRUE,
                       !.sectionLevel = headerLevel(line)]
       ELSE IF st.inUsageSection /\ headerLevel(line) <= st.sectionLevel
       THEN [st EXCEPT !.sections = IF Len(st.currentSection) > 0
                                    THEN Append(st.sections, join(st.currentSection, "\n"))
                                    ELSE st.sections,
                       !.currentSection = <<>>,
                       !.inUsageSection = FALSE]
       ELSE IF st.inUsageSection
       THEN [st EXCEPT !.currentSection = Append(@, line)]
       ELSE st
  ELSE IF st.inUsageSection
  THEN [st EXCEPT !.currentSection = Append(@, line)]
  ELSE st

\* one iteration of the for loop of extractUsageSections
ScanLine(st, line) == ScanStep(st, line, isUsageHeader(line))

RECURSIVE ScanLines(_, _)
\* the for loop of extractUsageSections over the lines
ScanLines(st, lines) ==
  IF Len(lines) = 0 THEN st ELSE ScanLines(ScanLine(st, Head(lines)), Tail(lines))

\* extractUsageSections with a whole-document fallback when no section is found
extractUsageSectionsOrWholeDocument(content) ==
  LET st == ScanLines(ScanStart, split(content, "\n"))
      found == IF Len(st.currentSection) > 0
               THEN Append(st.sections, join(st.currentSection, "\n"))
               ELSE st.sections
  IN IF Len(found) = 0 THEN <<content>> ELSE found

\* SectionExtractor.extractUsageSections
extractUsageSections(content) ==
  LET st == ScanLines(ScanStart, split(content, "\n"))
  IN IF Len(st.currentSection) > 0
     THEN Append(st.sections, join(st.currentSection, "\n"))
     ELSE st.sections

(***************************************************************************)
(* CodeAnalyzer                                                            *)
(***************************************************************************)

\* the alias map of the older ReadmeParser.normalizeLanguage: unknown tags pass through
normalizeLanguagePassThrough(language) ==
  LET normalized == toLowerCase(language)
  IN CASE normalized = "rs" -> "rust"
       [] normalized \in {"sh", "shell"} -> "bash"
       [] normalized = "yml" -> "yaml"
       [] normalized = "md" -> "markdown"
       [] normalized = "dockerfile" -> "docker"
       [] OTHER -> normalized

\* the alias map without toLowerCase: tags are compared as written
normalizeLanguageCaseSensitive(language) ==
  CASE language \in {"rs", "rust"} -> "rust"
    [] language \in {"sh", "shell", "bash", "zsh"} -> "bash"
    [] language = "yml" -> "yaml"
    [] language \in {"toml", "yaml", "json"} -> language
    [] OTHER -> "text"

\* the alias map without the cases of the canonical names rust and bash
normalizeLanguageAliasesOnly(language) ==
  LET normalized == toLowerCase(language)
  IN CASE normalized = "rs" -> "rust"
       [] normalized \in {"sh", "shell", "zsh"} -> "bash"
       [] normalized = "yml" -> "yaml"
       [] normalized \in {"toml", "yaml", "json"} -> normalized
       [] OTHER -> "text"

\* CodeAnalyzer.normalizeLanguage
normalizeLanguage(language) ==
  LET normalized == toLowerCase(language)
  IN CASE normalized \in {"rs", "rust"} -> "rust"
       [] normalized \in {"sh", "shell", "bash", "zsh"} -> "bash"
       [] normalized = "yml" -> "yaml"
       [] normalized \in {"toml", "yaml", "json"} -> normalized
       [] OTHER -> "text"

\* the test of the older ReadmeParser.generateExampleTitle: bash, shell and sh as written
isShellLanguageLegacy(language) == language \in {"bash", "shell", "sh"}

isShellLanguage(language) == toLowerCase(language) \in {"bash", "shell", "sh", "zsh"}

isRustLanguage(language) == toLowerCase(language) \in {"rust", "rs"}

isConfigLanguage(language) == toLowerCase(language) \in {"toml", "yaml", "yml", "json"}

getShellExampleTitle(firstLine) ==
  IF includes(firstLine, "cargo install") \/ includes(firstLine, "cargo add")
  THEN "Installation"
  ELSE IF includes(firstLine, "cargo run") \/ includes(firstLine, "cargo build")
  THEN "Build and Run"
  ELSE "Command Line Usage"

\* the rules of getRustExampleTitle with the type rule before the main rule
getRustExampleTitleTypesFirst(code, firstLine) ==
  IF includes(firstLine, "use ") \/ includes(code, "extern crate") THEN "Basic Usage"
  ELSE IF includes(code, "struct") \/ includes(code, "enum") THEN "Type Definitions"
  ELSE IF includes(code, "fn main()") THEN "Complete Example"
  ELSE IF includes(code, "impl") THEN "Implementation Example"
  ELSE IF includes(code, "async") \/ includes(code, "await") THEN "Async Example"
  ELSE IF includes(code, "#[test]") \/ includes(code, "assert!") THEN "Test Example"
  ELSE "Code Example"

getRustExampleTitle(code, firstLine) ==
  IF includes(firstLine, "use ") \/ includes(code, "extern crate") THEN "Basic Usage"
  ELSE IF includes(code, "fn main()") THEN "Complete Example"
  ELSE IF includes(code, "struct") \/ includes(code, "enum") THEN "Type Definitions"
  ELSE IF includes(code, "impl") THEN "Implementation Example"
  ELSE IF includes(code, "async") \/ includes(code, "await") THEN "Async Example"
  ELSE IF includes(code, "#[test]") \/ includes(code, "assert!") THEN "Test Example"
  ELSE "Code Example"

\* CodeAnalyzer.generateExampleTitle
generateExampleTitle(code, language) ==
  LET firstLine == trim(split(code, "\n")[1])
  IN IF isShellLanguage(language) THEN getShellExampleTitle(firstLine)
     ELSE IF isRustLanguage(language) THEN getRustExampleTitle(code, firstLine)
     ELSE IF isConfigLanguage(language)
     THEN IF toLowerCase(language) = "json" THEN "JSON Configuration"
          ELSE IF toLowerCase(language) = "toml" THEN "Cargo.toml Configuration"
          ELSE "Configuration"
     ELSE "Code Example"

(***************************************************************************)
(* ReadmeParser: usage examples                                            *)
(***************************************************************************)

\* The triple-backtick fence marker.  A TLA+ string cannot hold a backtick, so in
\* every document of the model the character ~ stands for the backtick.
Fence == "~~~"

NoMatch == [found |-> FALSE, index |-> 0, language |-> "", code |-> "", lastIndex |-> 0]

RECURSIVE execCodeBlock(_, _)
\* codeBlockRegex.exec(section) with lastIndex = from - 1, for CODE_BLOCK_PATTERN,
\* /FENCE(\w+)?\n([\s\S]*?)FENCE/g: the leftmost opening marker followed by an
\* optional word and a line feed, closed by the nearest later marker
execCodeBlock(section, from) ==
  LET p == indexOfFrom(section, Fence, from)
  IN IF p = 0 THEN NoMatch
     ELSE LET w == RunLen(section, p + 3, WordChars)
              body == p + 3 + w + 1
              q == indexOfFrom(section, Fence, body)
          IN IF At(section, p + 3 + w) = "\n" /\ q # 0
             THEN [found |-> TRUE,
                   index |-> p,
                   language |-> IF w = 0 THEN "text" ELSE SubSeq(section, p + 3, p + 2 + w),
                   code |-> SubSeq(section, body, q - 1),
                   lastIndex |-> q + 3]
             ELSE execCodeBlock(section, p + 1)

\* the characters of the class [{}[\]();,]
CodeChars == {"{", "}", "[", "]", "(", ")", ";", ","}

RustKeywords ==
  {"use", "fn", "struct", "enum", "impl", "mod", "let", "const", "pub", "extern"}

\* ReadmeParser.looksLikeCode
looksLikeCode(text) ==
  LET t == trimStart(text)
      e == trimEnd(text)
  IN \/ At(t, 1) \in CodeChars
     \/ At(e, Len(e)) \in CodeChars
     \/ \E kw \in RustKeywords : startsWith(t, kw) /\ At(t, Len(kw) + 1) \in WhiteSpace
     \/ startsWith(t, "$")
     \/ startsWith(t, "//")
     \/ startsWith(t, "#")
     \/ startsWith(t, "[")

\* trimmed.replace(/^[*-]\s*/, '')
stripBullet(t) ==
  IF At(t, 1) \in {"*", "-"}
  THEN SubSeq(t, 2 + RunLen(t, 2, WhiteSpace), Len(t))
  ELSE t

Undefined == [defined |-> FALSE, text |-> ""]

RECURSIVE descriptionFromLinesSkipping(_)
\* the for loop with continue for break: a line that does not serve is passed over
\* and the line before it is tried
descriptionFromLinesSkipping(lines) ==
  IF Len(lines) = 0 THEN Undefined
  ELSE LET trimmed == trim(Head(lines))
       IN IF Len(trimmed) = 0 \/ startsWith(trimmed, "#")
          THEN descriptionFromLinesSkipping(Tail(lines))
          ELSE IF Len(trimmed) > 10 /\ Len(trimmed) < 200 /\ ~looksLikeCode(trimmed)
          THEN [defined |-> TRUE, text |-> stripBullet(trimmed)]
          ELSE descriptionFromLinesSkipping(Tail(lines))

RECURSIVE descriptionFromLines(_)
\* the for loop of extractExampleDescription over the reversed lines
descriptionFromLines(lines) ==
  IF Len(lines) = 0 THEN Undefined
  ELSE LET trimmed == trim(Head(lines))
       IN IF Len(trimmed) = 0 \/ startsWith(trimmed, "#")
          THEN descriptionFromLines(Tail(lines))
          ELSE IF Len(trimmed) > 10 /\ Len(trimmed) < 200 /\ ~looksLikeCode(trimmed)
          THEN [defined |-> TRUE, text |-> stripBullet(trimmed)]
          ELSE Undefined

\* ReadmeParser.extractExampleDescription; codeBlockIndex is 1-based here
extractExampleDescription(section, codeBlockIndex) ==
  descriptionFromLines(reverse(split(SubSeq(section, 1, codeBlockIndex - 1), "\n")))

RECURSIVE codeBlocksFrom(_, _)
\* the while loop of extractCodeBlocksFromSection
codeBlocksFrom(section, from) ==
  LET match == execCodeBlock(section, from)
  IN IF ~match.found THEN <<>>
     ELSE LET cleanCode == trim(match.code)
              description == extractExampleDescription(section, match.index)
          IN (IF Len(cleanCode) = 0 THEN <<>>
              ELSE <<[title |-> generateExampleTitle(cleanCode, match.language),
                      \* description || undefined
                      description |-> IF description.defined /\ description.text # ""
                                      THEN description ELSE Undefined,
                      code |-> cleanCode,
                      language |-> normalizeLanguage(match.language)]>>)
             \o codeBlocksFrom(section, match.lastIndex)

\* ReadmeParser.extractCodeBlocksFromSection
extractCodeBlocksFromSection(section) == codeBlocksFrom(section, 1)

\* a key that compares the code as written
codeHashExact(code) == code

\* example.code.replace(/\s+/g, ' ').trim()
codeHash(code) == trim(collapseWhitespace(code))

RECURSIVE dedupFrom(_, _)
\* the for loop of deduplicateExamples with the set seen
dedupFrom(examples, seen) ==
  IF Len(examples) = 0 THEN <<>>
  ELSE LET h == codeHash(Head(examples).code)
       IN IF h \notin seen
          THEN <<Head(examples)>> \o dedupFrom(Tail(examples), seen \cup {h})
          ELSE dedupFrom(Tail(examples), seen)

\* ReadmeParser.deduplicateExamples
deduplicateExamples(examples) == dedupFrom(examples, {})

\* the limit of uniqueExamples.slice(0, 10)
MaxExamples == 10

\* Array.prototype.slice(0, n)
slice0(seq, n) == SubSeq(seq, 1, IF Len(seq) < n THEN Len(seq) ELSE n)

RECURSIVE sectionExamples(_)
\* for (const section of sections) examples.push(...extractCodeBlocksFromSection(section))
sectionExamples(sections) ==
  IF Len(sections) = 0 THEN <<>>
  ELSE extractCodeBlocksFromSection(Head(sections)) \o sectionExamples(Tail(sections))

\* the candidate list of parseUsageExamples: examples before deduplicateExamples
candidateExamples(readmeContent) == sectionExamples(extractUsageSections(readmeContent))

\* a limit that is off by one: uniqueExamples.slice(0, 11)
limitExamplesOffByOne(uniqueExamples) == slice0(uniqueExamples, MaxExamples + 1)

\* uniqueExamples.slice(0, 10)
limitExamples(uniqueExamples) == slice0(uniqueExamples, MaxExamples)

\* a guard that forgets the flag: !readmeContent alone
skipsExtractionOnEmptyOnly(readmeContent, includeExamples) == readmeContent = ""

\* the guard of parseUsageExamples: !includeExamples || !readmeContent
skipsExtraction(readmeContent, includeExamples) == ~includeExamples \/ readmeContent = ""

\* ReadmeParser.parseUsageExamples
parseUsageExamples(readmeContent, includeExamples) ==
  IF skipsExtraction(readmeContent, includeExamples) THEN <<>>
  ELSE limitExamples(deduplicateExamples(candidateExamples(readmeContent)))

(***************************************************************************)
(* The shared patterns of SectionExtractor and their lastIndex             *)
(***************************************************************************)

\* the lastIndex of the three USAGE_SECTION_PATTERNS when the module is loaded
FreshLastIndex == <<0, 0, 0>>

\* a test that goes on from the lastIndex the call before left
keepLastIndex(index) == index

\* pattern.lastIndex = 0
resetLastIndex(index) == 0

\* pattern.test(line) of a pattern with the flags g and m that is anchored with ^ and $,
\* on one line: the search starts at lastIndex, a match can only start at the start of
\* the line and ends at its end; a failed test sets lastIndex to 0
testGlobal(matchesLine, line, index) ==
  IF index = 0 /\ matchesLine
  THEN [found |-> TRUE, lastIndex |-> Len(line)]
  ELSE [found |-> FALSE, lastIndex |-> 0]

\* SectionExtractor.isUsageHeader with the lastIndex of the patterns: some() tests
\* the patterns in order and stops at the first that matches
isUsageHeaderShared(line, lastIndex) ==
  LET t1 == testGlobal(matchesHashUsagePattern(line), line, resetLastIndex(lastIndex[1]))
      t2 == testGlobal(matchesBareUsagePattern(line), line, resetLastIndex(lastIndex[2]))
      t3 == testGlobal(matchesBareExamplesPattern(line), line, resetLastIndex(lastIndex[3]))
  IN IF t1.found THEN [found |-> TRUE, lastIndex |-> <<t1.lastIndex, lastIndex[2], lastIndex[3]>>]
     ELSE IF t2.found
     THEN [found |-> TRUE, lastIndex |-> <<t1.lastIndex, t2.lastIndex, lastIndex[3]>>]
     ELSE [found |-> t3.found, lastIndex |-> <<t1.lastIndex, t2.lastIndex, t3.lastIndex>>]

\* one iteration of the for loop of extractUsageSections; isUsageHeader is called for
\* header lines only
ScanLineShared(sh, line) ==
  IF isHeader(line)
  THEN LET u == isUsageHeaderShared(line, sh.lastIndex)
       IN [st |-> ScanStep(sh.st, line, u.found), lastIndex |-> u.lastIndex]
  ELSE [st |-> ScanStep(sh.st, line, FALSE), lastIndex |-> sh.lastIndex]

RECURSIVE ScanLinesShared(_, _)
\* the for loop of extractUsageSections over the lines
ScanLinesShared(sh, lines) ==
  IF Len(lines) = 0 THEN sh ELSE ScanLinesShared(ScanLineShared(sh, Head(lines)), Tail(lines))

\* SectionExtractor.extractUsageSections with the lastIndex of the patterns
extractUsageSectionsShared(content, lastIndex) ==
  LET sh == ScanLinesShared([st |-> ScanStart, lastIndex |-> lastIndex], split(content, "\n"))
  IN [sections |-> IF Len(sh.st.currentSection) > 0
                   THEN Append(sh.st.sections, join(sh.st.currentSection, "\n"))
                   ELSE sh.st.sections,
      lastIndex |-> sh.lastIndex]

\* ReadmeParser.parseUsageExamples with the lastIndex of the patterns
parseUsageExamplesShared(readmeContent, includeExamples, lastIndex) ==
  IF skipsExtraction(readmeContent, includeExamples)
  THEN [value |-> <<>>, lastIndex |-> lastIndex]
  ELSE LET found == extractUsageSectionsShared(readmeContent, lastIndex)
       IN [value |-> limitExamples(deduplicateExamples(sectionExamples(found.sections))),
           lastIndex |-> found.lastIndex]

RECURSIVE lastIndexAfterHeaders(_, _)
\* the lastIndex of the patterns after isUsageHeader was called for each of the
\* header lines in turn
lastIndexAfterHeaders(lastIndex, headers) ==
  IF Len(headers) = 0 THEN lastIndex
  ELSE lastIndexAfterHeaders(isUsageHeaderShared(Head(headers), lastIndex).lastIndex,
                             Tail(headers))

\* the lastIndex of the patterns after parseUsageExamples has returned: the for loop
\* of extractUsageSections calls isUsageHeader for the header lines, in their order
lastIndexAfterParse(readmeContent, includeExamples, lastIndex) ==
  IF skipsExtraction(readmeContent, includeExamples) THEN lastIndex
  ELSE lastIndexAfterHeaders(lastIndex, SelectSeq(split(readmeContent, "\n"), isHeader))

(***************************************************************************)
(* ReadmeParser: cleanMarkdown and extractDescription                      *)
(***************************************************************************)

\* the end of the match of /!\[([^\]]*)\]\([^)]+\)/ that starts at position p, 0 if none
imageMatchEnd(s, p) ==
  LET a == RunLenNot(s, p + 2, {"]"})
      u == RunLenNot(s, p + 4 + a, {")"})
  IN IF /\ startsWithAt(s, "![", p)
        /\ startsWithAt(s, "](", p + 2 + a)
        /\ u >= 1
        /\ At(s, p + 4 + a + u) = ")"
     THEN p + 4 + a + u
     ELSE 0

\* the replacement callback: altText && altText.length > 3 ? altText : ''
imageReplacement(altText) == IF Len(altText) > 3 THEN altText ELSE ""

RECURSIVE replaceImages(_)
\* cleaned.replace(/!\[([^\]]*)\]\([^)]+\)/g, callback)
replaceImages(s) ==
  LET p == indexOfFrom(s, "![", 1)
  IN IF p = 0 THEN s
     ELSE LET e == imageMatchEnd(s, p)
          IN IF e = 0
             THEN SubSeq(s, 1, p) \o replaceImages(SubSeq(s, p + 1, Len(s)))
             ELSE SubSeq(s, 1, p - 1)
                  \o imageReplacement(SubSeq(s, p + 2, p + 1 + RunLenNot(s, p + 2, {"]"})))
                  \o replaceImages(SubSeq(s, e + 1, Len(s)))

\* the negative lookahead (?!https?:\/\/) at position i
isAbsoluteAt(s, i) == startsWithAt(s, "http://", i) \/ startsWithAt(s, "https://", i)

\* the end of the match of /\[([^\]]+)\]\((?!https?:\/\/)([^)]+)\)/ that starts at p, 0 if none
linkMatchEnd(s, p) ==
  LET t == RunLenNot(s, p + 1, {"]"})
      u == RunLenNot(s, p + 3 + t, {")"})
  IN IF /\ At(s, p) = "["
        /\ t >= 1
        /\ startsWithAt(s, "](", p + 1 + t)
        /\ ~isAbsoluteAt(s, p + 3 + t)
        /\ u >= 1
        /\ At(s, p + 3 + t + u) = ")"
     THEN p + 3 + t + u
     ELSE 0

RECURSIVE replaceRelativeLinks(_)
\* cleaned.replace(/\[([^\]]+)\]\((?!https?:\/\/)([^)]+)\)/g, '$1')
replaceRelativeLinks(s) ==
  LET p == indexOfFrom(s, "[", 1)
  IN IF p = 0 THEN s
     ELSE LET e == linkMatchEnd(s, p)
          IN IF e = 0
             THEN SubSeq(s, 1, p) \o replaceRelativeLinks(SubSeq(s, p + 1, Len(s)))
             ELSE SubSeq(s, 1, p - 1)
                  \o SubSeq(s, p + 1, p + RunLenNot(s, p + 1, {"]"}))
                  \o replaceRelativeLinks(SubSeq(s, e + 1, Len(s)))

RECURSIVE collapseNewlines(_)
\* cleaned.replace(/\n{3,}/g, '\n\n')
collapseNewlines(s) ==
  LET p == indexOfFrom(s, "\n", 1)
  IN IF p = 0 THEN s
     ELSE LET n == RunLen(s, p, {"\n"})
          IN SubSeq(s, 1, p - 1)
             \o (IF n >= 3 THEN "\n\n" ELSE SubSeq(s, p, p + n - 1))
             \o collapseNewlines(SubSeq(s, p + n, Len(s)))

\* ReadmeParser.cleanMarkdown
cleanMarkdown(content) ==
  trim(collapseNewlines(replaceRelativeLinks(replaceImages(content))))

\* the fallback of extractDescription
NoDescription == "No description available"

\* the length a line must exceed to be taken as description text: trimmed.length > 20
MinDescriptionLine == 20

\* the limit of description.length + trimmed.length < 300
MaxDescription == 300

\* a line of exactly 20 characters is taken as description text as well
isSubstantialInclusive(trimmed) == Len(trimmed) >= MinDescriptionLine

\* whether a trimmed line is long enough to be description text
isSubstantial(trimmed) == Len(trimmed) > MinDescriptionLine

RECURSIVE describeLinesPastBlank(_, _, _)
\* the for loop with a break at header lines only: an empty line after the first
\* description line is passed over
describeLinesPastBlank(lines, foundDescription, description) ==
  IF Len(lines) = 0 THEN description
  ELSE LET trimmed == trim(Head(lines))
       IN IF Len(trimmed) = 0
          THEN describeLinesPastBlank(Tail(lines), foundDescription, description)
          ELSE IF startsWith(trimmed, "#")
          THEN IF foundDescription /\ Len(description) > 0
               THEN description
               ELSE describeLinesPastBlank(Tail(lines), foundDescription, description)
          ELSE IF startsWith(trimmed, "![") \/ startsWith(trimmed, "[![")
          THEN describeLinesPastBlank(Tail(lines), foundDescription, description)
          ELSE IF Len(trimmed) > MinDescriptionLine
          THEN IF ~foundDescription
               THEN describeLinesPastBlank(Tail(lines), TRUE, trimmed)
               ELSE IF Len(description) + Len(trimmed) < MaxDescription
               THEN describeLinesPastBlank(Tail(lines), foundDescription,
                                           description \o " " \o trimmed)
               ELSE description
          ELSE describeLinesPastBlank(Tail(lines), foundDescription, description)

RECURSIVE describeLines(_, _, _)
\* the for loop of extractDescription with its locals foundDescription, description
describeLines(lines, foundDescription, description) ==
  IF Len(lines) = 0 THEN description
  ELSE LET trimmed == trim(Head(lines))
       IN IF Len(trimmed) = 0 \/ startsWith(trimmed, "#")
          THEN IF foundDescription /\ Len(description) > 0
               THEN description
               ELSE describeLines(Tail(lines), foundDescription, description)
          ELSE IF startsWith(trimmed, "![") \/ startsWith(trimmed, "[![")
          THEN describeLines(Tail(lines), foundDescription, description)
          ELSE IF isSubstantial(trimmed)
          THEN IF ~foundDescription
               THEN describeLines(Tail(lines), TRUE, trimmed)
               ELSE IF Len(description) + Len(trimmed) < MaxDescription
               THEN describeLines(Tail(lines), foundDescription, description \o " " \o trimmed)
               ELSE description
          ELSE describeLines(Tail(lines), foundDescription, description)

\* the description as the loop leaves it, without the fallback of line 255
extractDescriptionNoFallback(content) == describeLines(split(content, "\n"), FALSE, "")

\* ReadmeParser.extractDescription
extractDescription(content) ==
  LET description == describeLines(split(content, "\n"), FALSE, "")
  IN IF description # "" THEN description ELSE NoDescription

(***************************************************************************)
(* validators.ts: validatePackageName, validateVersion                     *)
(***************************************************************************)

\* /^[a-zA-Z_][a-zA-Z0-9_-]{0,63}$/.test(packageName)
crateNamePattern(packageName) ==
  /\ Len(packageName) >= 1
  /\ Len(packageName) <= 64
  /\ At(packageName, 1) \in CharsOf(UpperAlpha) \cup CharsOf(LowerAlpha) \cup {"_"}
  /\ RunLen(packageName, 2, WordChars \cup {"-"}) = Len(packageName) - 1

reservedNames == {"rust", "cargo", "std", "core", "alloc", "proc_macro", "test"}

\* validatePackageName: TRUE when it returns, FALSE when it throws
validatePackageName(packageName) ==
  /\ packageName # ""
  /\ crateNamePattern(packageName)
  /\ toLowerCase(packageName) \notin reservedNames

\* the characters of [0-9A-Za-z-]
IdentifierChars == CharsOf(Digits) \cup CharsOf(UpperAlpha) \cup CharsOf(LowerAlpha) \cup {"-"}

\* the length of the match of [0-9A-Za-z-]+(?:\.[0-9A-Za-z-]+)* at i that is followed
\* by a character outside these identifiers and dots or by the end, 0 if none
dottedIdentifiersLen(s, i) ==
  LET n == RunLen(s, i, IdentifierChars \cup {"."})
  IN IF /\ n >= 1
        /\ At(s, i) # "."
        /\ At(s, i + n - 1) # "."
        /\ \A k \in i..(i + n - 2) : ~(At(s, k) = "." /\ At(s, k + 1) = ".")
     THEN n
     ELSE 0

\* the semverPattern of validateVersion
semverPattern(version) ==
  LET major == RunLen(version, 1, CharsOf(Digits))
      minor == RunLen(version, major + 2, CharsOf(Digits))
      patch == RunLen(version, major + minor + 3, CharsOf(Digits))
      core == major + minor + patch + 2
      pre == IF At(version, core + 1) = "-" THEN dottedIdentifiersLen(version, core + 2) ELSE 0
      afterPre == IF pre > 0 THEN core + 1 + pre ELSE core
      build == IF At(version, afterPre + 1) = "+"
               THEN dottedIdentifiersLen(version, afterPre + 2) ELSE 0
      afterBuild == IF build > 0 THEN afterPre + 1 + build ELSE afterPre
  IN /\ major >= 1
     /\ At(version, major + 1) = "."
     /\ minor >= 1
     /\ At(version, major + minor + 2) = "."
     /\ patch >= 1
     /\ afterBuild = Len(version)

\* validateVersion: TRUE when it returns, FALSE when it throws
validateVersion(version) ==
  /\ version # ""
  /\ (version = "latest" \/ semverPattern(version))

(***************************************************************************)
(* get-package-readme.ts: getPackageReadme and its collaborators           *)
(***************************************************************************)

\* the crates of the registry, each with its README text and the number of its
\* latest version
Registry == {"serde"}

RegistryReadme == "# Serde\n\n## Usage\n\n~~~rust\nuse serde::Serialize;\n~~~\n"

RegistryVersion == "1.0.0"

RegistryDescription == "A serialization framework"

\* the package names and versions of the calls
PackageNames == {"serde", "nonesuch", "std", "2fa"}

Versions == {"latest", "1.0.0", "1.0"}

\* the parameters of the calls, with the defaults of line 17 filled in
Params == [package_name : PackageNames, version : Versions, include_examples : BOOLEAN]

\* createCacheKey.packageReadme(package_name, version)
packageReadmeKey(package_name, version) == <<package_name, version>>

CacheKeys == { packageReadmeKey(n, v) : n \in PackageNames, v \in Versions }

\* a response with nothing in it, the value of an entry or an outcome that has none
NoValue ==
  [package_name |-> "", version |-> "", description |-> "", readme_content |-> "",
   usage_examples |-> <<>>, exists |-> FALSE]

Miss == [hit |-> FALSE, value |-> NoValue]

\* cache.get(key): the value stored under the key, or a miss
cacheGet(c, key) == c[key]

\* cache.set(key, value): the value is stored under the key
cacheSet(c, key, value) == [c EXCEPT ![key] = [hit |-> TRUE, value |-> value]]

\* the entry under the key is past its time to live
cacheExpire(c, key) == [c EXCEPT ![key] = Miss]

\* the response of lines 42-59 for a crate the registry does not have
notFoundResponse(params) ==
  [package_name |-> params.package_name, version |-> params.version,
   description |-> "Package not found", readme_content |-> "",
   usage_examples |-> <<>>, exists |-> FALSE]

\* the response of lines 93-139 for a crate with the README text readmeContent
readmeResponse(params, readmeContent) ==
  [package_name |-> params.package_name, version |-> RegistryVersion,
   description |-> RegistryDescription, readme_content |-> cleanMarkdown(readmeContent),
   usage_examples |-> parseUsageExamples(readmeContent, params.include_examples),
   exists |-> TRUE]

NoParams == [package_name |-> "", version |-> "", include_examples |-> TRUE]

NoResponse == [kind |-> "none", params |-> NoParams, value |-> NoValue]

(***************************************************************************)
(* State                                                                   *)
(***************************************************************************)

VARIABLES
  doc,              \* the README text handed to the parser (readmeContent, content)
  nfrag,            \* how many pieces the README text was put together from
  blocks,           \* the fenced blocks written into doc, in document order
  phase,            \* which call was made last on the text
  includeExamples,  \* the includeExamples argument of parseUsageExamples
  extractionRan,    \* whether parseUsageExamples went past its first return
  examples,         \* the value parseUsageExamples returned
  cleaned,          \* the value cleanMarkdown(doc) returned
  recleaned,        \* the value cleanMarkdown(cleaned) returned
  description,      \* the value extractDescription returned
  tag,              \* a language tag, the argument of normalizeLanguage
  lang,             \* normalizeLanguage(tag)
  relang,           \* normalizeLanguage(lang)
  cache,            \* the entries of the shared cache, by key
  pending,          \* the getPackageReadme calls that wait for the registry
  response,         \* the outcome of the getPackageReadme call that returned last
  lastIndex,        \* the lastIndex of the three shared USAGE_SECTION_PATTERNS
  cratesIo,         \* the CratesIoApiClient.getReadmeContent call in progress
  github,           \* the GitHubApiClient.getReadmeFromRepository call in progress
  fetcher,          \* the ReadmeFetcher.fetchReadme call in progress
  scan,             \* the locals of an extractUsageSections call between two lines
  retry,            \* the withRetry call in progress
  recovery          \* the errorCounts of the ErrorRecovery object, and the clock

docVars == <<doc, nfrag, blocks>>

parseVars == <<includeExamples, extractionRan, examples>>

cleanVars == <<cleaned, recleaned>>

langVars == <<tag, lang, relang>>

toolVars == <<cache, pending, response>>

netVars == <<cratesIo, github, fetcher>>

auxVars == <<scan, retry, recovery>>

vars == <<doc, nfrag, blocks, phase, includeExamples, extractionRan, examples,
          cleaned, recleaned, description, tag, lang, relang, cache, pending, response,
          lastIndex, cratesIo, github, fetcher, scan, retry, recovery>>

\* no request made yet
NoCall == [pc |-> "idle"]

\* the contexts errors are recorded for
RecoveryContexts == {"crates.io", "github"}

\* errorCounts.get(context) of a context the map has no entry for
NoErrorInfo == [present |-> FALSE, count |-> 0, lastError |-> 0]

\* new ErrorRecovery(): an empty map; now is the value of Date.now(), in minutes;
\* op is the last call made, and recorded keeps for each context the streak of
\* recordError calls since the last recordSuccess in which every call came no more
\* than five minutes after the one before, and the time of the last of them
FreshRecovery ==
  [errorCounts |-> [c \in RecoveryContexts |-> NoErrorInfo],
   now |-> 0,
   op |-> [name |-> "none", context |-> ""],
   recorded |-> [c \in RecoveryContexts |-> [streak |-> 0, lastAt |-> 0]]]

\* an empty cache, no call made
InitTool ==
  /\ cache = [k \in CacheKeys |-> Miss]
  /\ pending = {}
  /\ response = NoResponse
  /\ lastIndex = FreshLastIndex
  /\ cratesIo = NoCall
  /\ github = NoCall
  /\ fetcher = NoCall
  /\ scan = NoCall
  /\ retry = NoCall
  /\ recovery = FreshRecovery

\* the state before any text is written and any call is made
InitIdle ==
  /\ InitTool
  /\ doc = ""
  /\ nfrag = 0
  /\ blocks = <<>>
  /\ phase = "build"
  /\ includeExamples = TRUE
  /\ extractionRan = FALSE
  /\ examples = <<>>
  /\ cleaned = ""
  /\ recleaned = ""
  /\ description = ""
  /\ tag = ""
  /\ lang = ""
  /\ relang = ""

(***************************************************************************)
(* Usage examples of README texts put together from lines and blocks       *)
(***************************************************************************)

\* the number of pieces of a README text
MaxFrags == 3

\* headers of the usage vocabulary and others, a bare marker line, prose, and fenced
\* blocks: two with the same code up to white space, one with an unknown tag, one empty
ParseFragments ==
  {"## Usage\n", "#  EXAMPLES \n", "### Notes\n", "## License\n", "Usage:\n", "##Usage\n",
   "Here is how the crate is used:\n",
   "~~~rust\nuse a::B;\n~~~\n", "~~~RS\nuse  a::B;\n~~~\n", "~~~python\nimport a\n~~~\n",
   "~~~\n \n~~~\n", "~~~sh\ncargo add a\n~~~\n"}

\* one more piece of the README text
AppendFragment ==
  /\ phase = "build"
  /\ nfrag < MaxFrags
  /\ \E f \in ParseFragments : doc' = doc \o f
  /\ nfrag' = nfrag + 1
  /\ UNCHANGED <<auxVars, netVars, lastIndex, toolVars, blocks, phase, parseVars, cleanVars, description, langVars>>

\* a call readmeParser.parseUsageExamples(doc, inc)
ParseUsageExamples ==
  /\ phase = "build"
  /\ \E inc \in BOOLEAN :
       /\ includeExamples' = inc
       /\ extractionRan' = ~skipsExtraction(doc, inc)
       /\ examples' = parseUsageExamples(doc, inc)
       /\ lastIndex' = lastIndexAfterParse(doc, inc, lastIndex)
  /\ phase' = "parsed"
  /\ UNCHANGED <<auxVars, netVars, toolVars, docVars, cleanVars, description, langVars>>

Init == InitIdle

Next == AppendFragment \/ ParseUsageExamples

Spec == Init /\ [][Next]_vars

(***************************************************************************)
(* Properties of parseUsageExamples                                        *)
(***************************************************************************)

\* the lines of the README text
DocLines == split(doc, "\n")

\* C1: whenever parseUsageExamples is called with includeExamples = false it returns
\* the empty list, and it returns before any section or code block is extracted.
C1_FlagOffReturnsEmpty ==
  (phase = "parsed" /\ ~includeExamples) => (examples = <<>> /\ ~extractionRan)

\* a text with extractable examples was parsed with the flag off
C1_Witness ==
  /\ phase = "parsed"
  /\ ~includeExamples
  /\ Len(candidateExamples(doc)) > 0
  /\ examples = <<>>

\* a line of 1 to 6 hashes, then white space, then a phrase of the usage vocabulary
IsVocabularyHashHeader(line) ==
  \E h \in 1..6 :
    /\ Len(line) > h
    /\ \A i \in 1..h : At(line, i) = "#"
    /\ At(line, h + 1) \in WhiteSpace
    /\ toLowerCase(trim(SubSeq(line, h + 1, Len(line)))) \in UsageVocabulary

\* C5: a text none of whose lines is a hash header of the usage vocabulary yields no
\* example, however many fenced blocks it holds.
C5_NoUsageHeaderNoExamples ==
  (/\ phase = "parsed"
   /\ includeExamples
   /\ \A i \in 1..Len(DocLines) : ~IsVocabularyHashHeader(DocLines[i]))
  => examples = <<>>

\* a text with fenced blocks, a bare marker line and no usage header was parsed
C5_Witness ==
  /\ phase = "parsed"
  /\ includeExamples
  /\ \A i \in 1..Len(DocLines) : ~IsVocabularyHashHeader(DocLines[i])
  /\ Len(extractCodeBlocksFromSection(doc)) > 0
  /\ \E i \in 1..Len(DocLines) : DocLines[i] = "Usage:"
  /\ examples = <<>>

\* the closed set of normalized languages
Languages == {"rust", "bash", "toml", "yaml", "json", "text"}

\* C6: every returned example has a code that is non-empty and equal to its own trim,
\* and a language of the closed set.
C6_ExamplesWellFormed ==
  phase = "parsed" =>
    \A i \in 1..Len(examples) :
      /\ examples[i].code # ""
      /\ examples[i].code = trim(examples[i].code)
      /\ examples[i].language \in Languages

\* an example was returned for a block with an unknown tag, next to an empty block
C6_Witness ==
  /\ phase = "parsed"
  /\ includes(doc, "~~~python\n")
  /\ includes(doc, "~~~\n \n~~~")
  /\ \E i \in 1..Len(examples) : examples[i].language = "text" /\ examples[i].code = "import a"

(***************************************************************************)
(* README texts with many fenced blocks, some of them repeated             *)
(***************************************************************************)

\* the number of fenced blocks of a README text
MaxBlocks == 12

\* how many of them repeat the code of the first block with other white space
MaxRepeats == 2

RECURSIVE Rep(_, _)
\* the string s written n times
Rep(s, n) == IF n = 0 THEN "" ELSE s \o Rep(s, n - 1)

\* the code of the k-th distinct block
FreshCode(k) == "use m::" \o Rep("a", k) \o ";"

\* the code of the first block, written with other white space
RepeatedCode == "use  m::a;"

BoundHeader == "## Examples\n"

\* the usage header, written before the first block or right after it
BoundAppendHeader ==
  /\ phase = "build"
  /\ ~includes(doc, BoundHeader)
  /\ Len(blocks) <= 1
  /\ doc' = doc \o BoundHeader
  /\ UNCHANGED <<auxVars, netVars, lastIndex, toolVars, nfrag, blocks, phase, parseVars, cleanVars, description, langVars>>

\* one more fenced block with a code not used before, tagged rust
BoundAppendFresh ==
  /\ phase = "build"
  /\ Len(blocks) < MaxBlocks
  /\ LET k == 1 + Cardinality({ i \in 1..Len(blocks) : ~blocks[i].repeat })
     IN /\ doc' = doc \o "~~~rust\n" \o FreshCode(k) \o "\n~~~\n"
        /\ blocks' = Append(blocks, [id |-> k, repeat |-> FALSE, code |-> FreshCode(k),
                                     language |-> "rust",
                                     inSection |-> includes(doc, BoundHeader)])
  /\ nfrag' = nfrag + 1
  /\ UNCHANGED <<auxVars, netVars, lastIndex, toolVars, phase, parseVars, cleanVars, description, langVars>>

\* one more fenced block that repeats the first code with other white space, tagged sh
BoundAppendRepeat ==
  /\ phase = "build"
  /\ Len(blocks) < MaxBlocks
  /\ Len(blocks) >= 1
  /\ Cardinality({ i \in 1..Len(blocks) : blocks[i].repeat }) < MaxRepeats
  /\ doc' = doc \o "The same once more:\n~~~sh\n" \o RepeatedCode \o "\n~~~\n"
  /\ blocks' = Append(blocks, [id |-> 1, repeat |-> TRUE, code |-> RepeatedCode,
                               language |-> "bash",
                               inSection |-> includes(doc, BoundHeader)])
  /\ nfrag' = nfrag + 1
  /\ UNCHANGED <<auxVars, netVars, lastIndex, toolVars, phase, parseVars, cleanVars, description, langVars>>

NextBound ==
  BoundAppendHeader \/ BoundAppendFresh \/ BoundAppendRepeat \/ ParseUsageExamples

SpecBound == Init /\ [][NextBound]_vars

\* the indices of the blocks written under the usage header
InSection == { i \in 1..Len(blocks) : blocks[i].inSection }

\* the blocks under the usage header that no earlier block under it repeats
FirstInSection == { i \in InSection : \A j \in InSection : j < i => blocks[j].id # blocks[i].id }

\* the place of such a block among them, in document order
Rank(i) == Cardinality({ j \in FirstInSection : j <= i })

\* C3: parseUsageExamples returns at most 10 examples, and they are the first 10 of the
\* deduplicated candidates, in document order.
C3_FirstTenOfDeduplicated ==
  (phase = "parsed" /\ includeExamples) =>
    /\ Len(examples) <= 10
    /\ Len(examples) = IF Cardinality(FirstInSection) < 10 THEN Cardinality(FirstInSection) ELSE 10
    /\ \A i \in FirstInSection :
         Rank(i) <= 10 => /\ examples[Rank(i)].code = blocks[i].code
                          /\ examples[Rank(i)].language = blocks[i].language

\* a text with more than 10 distinct blocks under its usage header, and a repeat, was parsed
C3_Witness ==
  /\ phase = "parsed"
  /\ includeExamples
  /\ Cardinality(FirstInSection) > 10
  /\ \E i \in InSection : i \notin FirstInSection
  /\ Len(examples) = 10

\* the returned examples whose code is that of a block with the normalized code of
\* block i (blocks have the same id exactly when their normalized codes are equal)
SameCodeAs(i) ==
  { n \in 1..Len(examples) :
      \E j \in 1..Len(blocks) : blocks[j].id = blocks[i].id /\ examples[n].code = blocks[j].code }

\* C4 as stated: of two fenced blocks of the document with the same normalized code,
\* exactly one is returned, and it is the first in document order.
C4_FirstInDocumentSurvives ==
  (phase = "parsed" /\ includeExamples) =>
    \A i, j \in 1..Len(blocks) :
      (/\ i < j
       /\ blocks[i].id = blocks[j].id
       /\ \A k \in 1..(i - 1) : blocks[k].id # blocks[i].id)
      => /\ Cardinality(SameCodeAs(i)) = 1
         /\ \A n \in SameCodeAs(i) : examples[n].code = blocks[i].code

\* C4, amended: of two fenced blocks under usage headers with the same normalized code,
\* the later one is never returned and the first one is returned exactly when it is
\* among the first 10 distinct candidates; no two returned examples share a
\* normalized code.
C4_FirstCandidateSurvives ==
  (phase = "parsed" /\ includeExamples) =>
    /\ \A i \in 1..Len(blocks) : Cardinality(SameCodeAs(i)) <= 1
    /\ \A i, j \in InSection :
         (i < j /\ blocks[i].id = blocks[j].id /\ i \in FirstInSection)
         => /\ Cardinality(SameCodeAs(i)) = (IF Rank(i) <= 10 THEN 1 ELSE 0)
            /\ \A n \in SameCodeAs(i) : /\ examples[n].code = blocks[i].code
                                        /\ examples[n].language = blocks[i].language

\* two blocks under the usage header with the same normalized code, written with other
\* white space and another tag, were parsed, and the first of them was returned
C4_Witness ==
  /\ phase = "parsed"
  /\ includeExamples
  /\ \E i, j \in InSection :
       /\ i < j
       /\ blocks[i].id = blocks[j].id
       /\ blocks[i].code # blocks[j].code
       /\ blocks[i].language # blocks[j].language
       /\ \E n \in 1..Len(examples) : examples[n].code = blocks[i].code

(***************************************************************************)
(* Language tags on the fence of a code block                              *)
(***************************************************************************)

\* how many characters are appended to a tag
MaxTagSuffix == 2

\* tags of every case of normalizeLanguage, in lower, upper and mixed case, and none
BaseTags ==
  {"", "rs", "RS", "rust", "Rust", "sh", "Shell", "bash", "zsh", "yml", "YAML", "yaml",
   "toml", "json", "python", "text"}

\* the characters appended to a tag
TagChars == {"s", "S", "h", "_", "1"}

\* a usage section with one fenced block that carries the tag t
TaggedDoc(t) == "## Usage\n~~~" \o t \o "\nlet x = 1;\n~~~\n"

InitLang ==
  /\ InitTool
  /\ tag \in BaseTags
  /\ doc = TaggedDoc(tag)
  /\ nfrag = 0
  /\ blocks = <<>>
  /\ phase = "build"
  /\ includeExamples = TRUE
  /\ extractionRan = FALSE
  /\ examples = <<>>
  /\ cleaned = ""
  /\ recleaned = ""
  /\ description = ""
  /\ lang = ""
  /\ relang = ""

\* one more character on the tag of the fence
TagAppend ==
  /\ phase = "build"
  /\ nfrag < MaxTagSuffix
  /\ \E c \in TagChars : tag' = tag \o c
  /\ doc' = TaggedDoc(tag')
  /\ nfrag' = nfrag + 1
  /\ UNCHANGED <<auxVars, netVars, lastIndex, toolVars, blocks, phase, parseVars, cleanVars, description, lang, relang>>

\* a call codeAnalyzer.normalizeLanguage(tag)
NormalizeLanguage ==
  /\ phase = "build"
  /\ lang' = normalizeLanguage(tag)
  /\ phase' = "normalized"
  /\ UNCHANGED <<auxVars, netVars, lastIndex, toolVars, docVars, parseVars, cleanVars, description, tag, relang>>

\* a call codeAnalyzer.normalizeLanguage on the value the first call returned
NormalizeAgain ==
  /\ phase = "normalized"
  /\ relang' = normalizeLanguage(lang)
  /\ phase' = "renormalized"
  /\ UNCHANGED <<auxVars, netVars, lastIndex, toolVars, docVars, parseVars, cleanVars, description, tag, lang>>

NextLang == TagAppend \/ NormalizeLanguage \/ NormalizeAgain \/ ParseUsageExamples

SpecLang == InitLang /\ [][NextLang]_vars

\* the language the normalization rule gives a tag written in lower case
LanguageOfLowerTag(t) ==
  IF t = "rs" THEN "rust"
  ELSE IF t = "sh" \/ t = "shell" \/ t = "zsh" THEN "bash"
  ELSE IF t = "yml" THEN "yaml"
  ELSE IF t = "toml" \/ t = "yaml" \/ t = "json" \/ t = "rust" \/ t = "bash" THEN t
  ELSE "text"

\* C7: the language of a returned example is the normalization of its fence tag
\* without regard to case: rs gives rust, sh, shell and zsh give bash, yml gives yaml,
\* toml, yaml, json, rust and bash stay, any other tag and no tag give text.
C7_LanguageOfFenceTag ==
  (phase = "parsed" /\ includeExamples) =>
    /\ Len(examples) = 1
    /\ examples[1].code = "let x = 1;"
    /\ examples[1].language = LanguageOfLowerTag(toLowerCase(tag))

\* a block tagged with an alias in mixed case was parsed and returned as bash
C7_Witness ==
  /\ phase = "parsed"
  /\ includeExamples
  /\ tag = "Shell"
  /\ Len(examples) = 1
  /\ examples[1].language = "bash"

\* C8: normalizeLanguage applied to its own result returns that result.
C8_NormalizeLanguageIdempotent ==
  phase = "renormalized" => relang = lang

\* an alias in upper case was normalized twice
C8_Witness ==
  /\ phase = "renormalized"
  /\ tag = "RS"
  /\ lang = "rust"
  /\ relang = "rust"

(***************************************************************************)
(* README texts with image and link references                             *)
(***************************************************************************)

\* the number of pieces of a text with references
MaxCleanFrags == 3

\* images with a short and a long alt text, relative and absolute links, the openings
\* and closings that nest or adjoin them, blank lines and plain text
CleanFragments ==
  {"!", "[", "](v)", "](http://v)", "![ab](u)", "![build](u)", "[text](rel)",
   "[text](https://x)", "\n\n", " ", "a"}

\* one more piece of the text
CleanAppend ==
  /\ phase = "build"
  /\ nfrag < MaxCleanFrags
  /\ \E f \in CleanFragments : doc' = doc \o f
  /\ nfrag' = nfrag + 1
  /\ UNCHANGED <<auxVars, netVars, lastIndex, toolVars, blocks, phase, parseVars, cleanVars, description, langVars>>

\* a call readmeParser.cleanMarkdown(doc)
CleanMarkdown ==
  /\ phase = "build"
  /\ cleaned' = cleanMarkdown(doc)
  /\ phase' = "cleaned"
  /\ UNCHANGED <<auxVars, netVars, lastIndex, toolVars, docVars, parseVars, recleaned, description, langVars>>

\* a call readmeParser.cleanMarkdown on the value the first call returned
CleanAgain ==
  /\ phase = "cleaned"
  /\ recleaned' = cleanMarkdown(cleaned)
  /\ phase' = "recleaned"
  /\ UNCHANGED <<auxVars, netVars, lastIndex, toolVars, docVars, parseVars, cleaned, description, langVars>>

NextClean == CleanAppend \/ CleanMarkdown \/ CleanAgain

SpecClean == Init /\ [][NextClean]_vars

\* C9: cleanMarkdown applied to its own result returns that result, for every text,
\* nested and adjacent image and link references included.
C9_CleanMarkdownIdempotent ==
  phase = "recleaned" => recleaned = cleaned

(***************************************************************************)
(* README texts with badge lines and prose lines                           *)
(***************************************************************************)

\* the number of pieces of a text with badges and prose
MaxDescFrags == 4

\* badge lines, a line end, a header, and pieces of prose: 19 characters that
\* the other pieces lengthen
DescFragments ==
  {"![Build](url)\n", "[![CI](u)](v)\n", "\n", "# Title\n", "This project does X", ".",
   " well", "  "}

\* one more piece of the text
DescAppend ==
  /\ phase = "build"
  /\ nfrag < MaxDescFrags
  /\ \E f \in DescFragments : doc' = doc \o f
  /\ nfrag' = nfrag + 1
  /\ UNCHANGED <<auxVars, netVars, lastIndex, toolVars, blocks, phase, parseVars, cleanVars, description, langVars>>

\* a call readmeParser.extractDescription(doc)
ExtractDescription ==
  /\ phase = "build"
  /\ description' = extractDescription(doc)
  /\ phase' = "described"
  /\ UNCHANGED <<auxVars, netVars, lastIndex, toolVars, docVars, parseVars, cleanVars, langVars>>

NextDesc == DescAppend \/ ExtractDescription

SpecDesc == Init /\ [][NextDesc]_vars

\* a line that extractDescription takes for a badge or an image
IsBadgeLine(line) == startsWith(trim(line), "![") \/ startsWith(trim(line), "[![")

\* the text is one badge line, one blank line and one line of prose
BadgeBlankProse ==
  /\ Len(DocLines) = 3
  /\ IsBadgeLine(DocLines[1])
  /\ DocLines[2] = ""
  /\ startsWith(DocLines[3], "This project does X")

\* C10 as stated: for a badge line, a blank line and the prose line
\* 'This project does X.' extractDescription returns that prose line.
C10_ProseLineReturned ==
  (phase = "described" /\ BadgeBlankProse /\ DocLines[3] = "This project does X.")
  => description = "This project does X."

\* C10, amended: for a badge line, a blank line and one prose line, extractDescription
\* returns the trimmed prose line when it is longer than 20 characters and
\* 'No description available' otherwise, as for 'This project does X.' of 20 characters.
C10_ProseLineReturnedWhenLongerThan20 ==
  (phase = "described" /\ BadgeBlankProse)
  => description = IF Len(trim(DocLines[3])) > 20
                   THEN trim(DocLines[3])
                   ELSE "No description available"

\* the prose line of 20 characters after a badge line and a blank line was not returned
C10_Witness ==
  /\ phase = "described"
  /\ BadgeBlankProse
  /\ DocLines[3] = "This project does X."
  /\ Len(DocLines[3]) = 20
  /\ description = "No description available"

(***************************************************************************)
(* getPackageReadme calls that share the cache                             *)
(***************************************************************************)

\* how many calls wait for the registry at a time
MaxInflight == 2

\* getPackageReadme up to its first await: validation, then the cache; a call that
\* misses the cache goes on to the registry
Call ==
  /\ \E params \in Params :
       LET cacheKey == packageReadmeKey(params.package_name, params.version)
           cached == cacheGet(cache, cacheKey)
       IN IF ~validatePackageName(params.package_name)
             \/ (params.version # "latest" /\ ~validateVersion(params.version))
          THEN /\ response' = [kind |-> "error", params |-> params, value |-> NoValue]
               /\ UNCHANGED pending
          ELSE IF cached.hit
          THEN /\ response' = [kind |-> "value", params |-> params, value |-> cached.value]
               /\ UNCHANGED pending
          ELSE /\ Cardinality(pending) < MaxInflight
               /\ pending' = pending \cup {params}
               /\ UNCHANGED response
  /\ UNCHANGED <<auxVars, netVars, cache, lastIndex, docVars, phase, parseVars, cleanVars, description,
                 langVars>>

\* getPackageReadme from the answer of the registry on, with a cache.set before the
\* return of the response for a crate that does not exist
CompleteCachingNotFound ==
  /\ \E params \in pending :
       /\ pending' = pending \ {params}
       /\ \E failed \in BOOLEAN :
            IF failed
            THEN /\ response' = [kind |-> "error", params |-> params, value |-> NoValue]
                 /\ UNCHANGED <<cache, lastIndex>>
            ELSE IF params.package_name \notin Registry
            THEN /\ response' = [kind |-> "value", params |-> params,
                                 value |-> notFoundResponse(params)]
                 /\ cache' = cacheSet(cache,
                                packageReadmeKey(params.package_name, params.version),
                                notFoundResponse(params))
                 /\ UNCHANGED lastIndex
            ELSE \E cratesIoReadme \in {"", RegistryReadme}, githubReadme \in {"", RegistryReadme} :
                   LET readmeContent == IF cratesIoReadme # "" THEN cratesIoReadme
                                        ELSE githubReadme
                       built == readmeResponse(params, readmeContent)
                   IN /\ cache' = cacheSet(cache,
                                     packageReadmeKey(params.package_name, params.version),
                                     built)
                      /\ response' = [kind |-> "value", params |-> params, value |-> built]
                      /\ lastIndex' = lastIndexAfterParse(readmeContent,
                                         params.include_examples, lastIndex)
  /\ UNCHANGED <<auxVars, netVars, docVars, phase, parseVars, cleanVars, description, langVars>>

\* getPackageReadme from the answer of the registry on: the crate does not exist, or
\* a request fails and the error is thrown on, or the response is built from the README
\* of crates.io or of the repository, stored in the cache and returned
Complete ==
  /\ \E params \in pending :
       /\ pending' = pending \ {params}
       /\ \E failed \in BOOLEAN :
            IF failed
            THEN /\ response' = [kind |-> "error", params |-> params, value |-> NoValue]
                 /\ UNCHANGED <<cache, lastIndex>>
            ELSE IF params.package_name \notin Registry
            THEN /\ response' = [kind |-> "value", params |-> params,
                                 value |-> notFoundResponse(params)]
                 /\ UNCHANGED <<cache, lastIndex>>
            ELSE \E cratesIoReadme \in {"", RegistryReadme}, githubReadme \in {"", RegistryReadme} :
                   LET readmeContent == IF cratesIoReadme # "" THEN cratesIoReadme
                                        ELSE githubReadme
                       built == readmeResponse(params, readmeContent)
                   IN /\ cache' = cacheSet(cache,
                                     packageReadmeKey(params.package_name, params.version),
                                     built)
                      /\ response' = [kind |-> "value", params |-> params, value |-> built]
                      /\ lastIndex' = lastIndexAfterParse(readmeContent,
                                         params.include_examples, lastIndex)
  /\ UNCHANGED <<auxVars, netVars, docVars, phase, parseVars, cleanVars, description, langVars>>

\* an entry of the cache reaches the end of its time to live
Expire ==
  /\ \E key \in CacheKeys :
       /\ cache[key].hit
       /\ cache' = cacheExpire(cache, key)
  /\ UNCHANGED <<auxVars, netVars, pending, response, lastIndex, docVars, phase, parseVars, cleanVars,
                 description, langVars>>

NextCache == Call \/ Complete \/ Expire

SpecCache == Init /\ [][NextCache]_vars

\* C2: every getPackageReadme call made with include_examples = false returns a
\* response whose usage_examples list is empty, whatever calls came before it.
C2_FlagOffResponseHasNoExamples ==
  (response.kind = "value" /\ ~response.params.include_examples)
  => response.value.usage_examples = <<>>

(***************************************************************************)
(* Properties of extractDescription                                        *)
(***************************************************************************)

\* a line that, trimmed, is not blank, is no header, is no badge or image, and is
\* longer than 20 characters
IsQualifyingLine(line) ==
  /\ trim(line) # ""
  /\ ~startsWith(trim(line), "#")
  /\ ~IsBadgeLine(line)
  /\ Len(trim(line)) > 20

\* C11: extractDescription never returns the empty string, and it returns
\* 'No description available' for every text without a qualifying line.
C11_DescriptionNeverEmpty ==
  phase = "described" =>
    /\ description # ""
    /\ (\A i \in 1..Len(DocLines) : ~IsQualifyingLine(DocLines[i]))
         => description = "No description available"

\* a text with a header, a badge and a prose line of 19 characters was described
C11_Witness ==
  /\ phase = "described"
  /\ includes(doc, "# Title")
  /\ includes(doc, "![Build]")
  /\ includes(doc, "This project does X")
  /\ \A i \in 1..Len(DocLines) : ~IsQualifyingLine(DocLines[i])
  /\ description = "No description available"

(***************************************************************************)
(* README texts with long prose lines                                      *)
(***************************************************************************)

\* the number of lines of a text with long lines
MaxLongLines == 3

\* a prose line of 12 * n characters
LongLine(n) == Rep("lorem ipsum ", n)

\* prose lines of 24, 144, 288 and 420 characters, a blank line and a header
LongFragments ==
  {LongLine(2) \o "\n", LongLine(12) \o "\n", LongLine(24) \o "\n", LongLine(35) \o "\n",
   "\n", "# Title\n"}

\* one more line of the text
LongAppend ==
  /\ phase = "build"
  /\ nfrag < MaxLongLines
  /\ \E f \in LongFragments : doc' = doc \o f
  /\ nfrag' = nfrag + 1
  /\ UNCHANGED <<auxVars, netVars, lastIndex, toolVars, blocks, phase, parseVars, cleanVars, description, langVars>>

NextLong == LongAppend \/ ExtractDescription

SpecLong == Init /\ [][NextLong]_vars

\* C12: the description extractDescription returns is bounded in length, by about 300
\* characters and by less than 400 in any case, however long the lines are.
C12_DescriptionBounded ==
  phase = "described" => Len(description) < 400

(***************************************************************************)
(* Internal faults inside the try blocks of the parser                     *)
(***************************************************************************)

\* the outcome of a catch block that throws the error on
rethrowsFault == [thrown |-> TRUE, value |-> <<>>]

\* the catch block of parseUsageExamples: return []
parseUsageExamplesCatch == [thrown |-> FALSE, value |-> <<>>]

\* the catch block of cleanMarkdown: return content
cleanMarkdownCatch(content) == [thrown |-> FALSE, value |-> content]

\* the catch block of extractDescription: return 'No description available'
extractDescriptionCatch == [thrown |-> FALSE, value |-> NoDescription]

\* parseUsageExamples with its try block; fault says that a statement of the try block
\* throws
tryParseUsageExamples(readmeContent, inc, fault) ==
  IF skipsExtraction(readmeContent, inc) THEN [thrown |-> FALSE, value |-> <<>>]
  ELSE IF fault THEN parseUsageExamplesCatch
  ELSE [thrown |-> FALSE, value |-> parseUsageExamples(readmeContent, inc)]

\* cleanMarkdown with its try block
tryCleanMarkdown(content, fault) ==
  IF fault THEN cleanMarkdownCatch(content)
  ELSE [thrown |-> FALSE, value |-> cleanMarkdown(content)]

\* extractDescription with its try block
tryExtractDescription(content, fault) ==
  IF fault THEN extractDescriptionCatch
  ELSE [thrown |-> FALSE, value |-> extractDescription(content)]

\* the phase after a call: thrown, or the name of the call, marked when a fault was caught
phaseAfter(name, outcome, fault) ==
  IF outcome.thrown THEN "thrown" ELSE IF fault THEN name \o ", fault caught" ELSE name

\* a call readmeParser.parseUsageExamples(doc, inc) in which a fault may occur
TryParseUsageExamples ==
  /\ phase = "build"
  /\ \E inc \in BOOLEAN, fault \in BOOLEAN :
     \E index \in {lastIndex, lastIndexAfterParse(doc, inc, lastIndex)} :
       LET outcome == tryParseUsageExamples(doc, inc, fault)
           faulted == fault /\ ~skipsExtraction(doc, inc)
       IN /\ includeExamples' = inc
          /\ extractionRan' = ~skipsExtraction(doc, inc)
          /\ examples' = outcome.value
          /\ lastIndex' = IF faulted THEN index
                           ELSE lastIndexAfterParse(doc, inc, lastIndex)
          /\ phase' = phaseAfter("parsed", outcome, faulted)
  /\ UNCHANGED <<auxVars, netVars, toolVars, docVars, cleanVars, description, langVars>>

\* a call readmeParser.cleanMarkdown(doc) in which a fault may occur
TryCleanMarkdown ==
  /\ phase = "build"
  /\ \E fault \in BOOLEAN :
       LET outcome == tryCleanMarkdown(doc, fault)
       IN /\ cleaned' = IF outcome.thrown THEN cleaned ELSE outcome.value
          /\ phase' = phaseAfter("cleaned", outcome, fault)
  /\ UNCHANGED <<auxVars, netVars, lastIndex, toolVars, docVars, parseVars, recleaned, description, langVars>>

\* a call readmeParser.extractDescription(doc) in which a fault may occur
TryExtractDescription ==
  /\ phase = "build"
  /\ \E fault \in BOOLEAN :
       LET outcome == tryExtractDescription(doc, fault)
       IN /\ description' = IF outcome.thrown THEN description ELSE outcome.value
          /\ phase' = phaseAfter("described", outcome, fault)
  /\ UNCHANGED <<auxVars, netVars, lastIndex, toolVars, docVars, parseVars, cleanVars, langVars>>

\* a call readmeFetcher.cleanAndParseReadme(doc, inc): cleanMarkdown, then
\* parseUsageExamples, a fault possible in each
CleanAndParseReadme ==
  /\ phase = "build"
  /\ \E inc \in BOOLEAN, cleanFault \in BOOLEAN, parseFault \in BOOLEAN :
     \E index \in {lastIndex, lastIndexAfterParse(doc, inc, lastIndex)} :
       LET cleanOutcome == tryCleanMarkdown(doc, cleanFault)
           parseOutcome == tryParseUsageExamples(doc, inc, parseFault)
           faulted == cleanFault \/ (parseFault /\ ~skipsExtraction(doc, inc))
       IN /\ includeExamples' = inc
          /\ extractionRan' = (~cleanOutcome.thrown /\ ~skipsExtraction(doc, inc))
          /\ cleaned' = IF cleanOutcome.thrown THEN cleaned ELSE cleanOutcome.value
          /\ examples' = IF cleanOutcome.thrown THEN examples ELSE parseOutcome.value
          /\ lastIndex' = IF cleanOutcome.thrown THEN lastIndex
                           ELSE IF parseFault /\ ~skipsExtraction(doc, inc) THEN index
                           ELSE lastIndexAfterParse(doc, inc, lastIndex)
          /\ phase' = IF cleanOutcome.thrown \/ parseOutcome.thrown THEN "thrown"
                      ELSE IF faulted THEN "cleaned and parsed, fault caught"
                      ELSE "cleaned and parsed"
  /\ UNCHANGED <<auxVars, netVars, toolVars, docVars, recleaned, description, langVars>>

\* the number of pieces of a text parsed with faults
MaxFaultFrags == 3

\* a usage header, a fenced block, a badge line and a prose line
FaultFragments ==
  {"## Usage\n", "~~~rust\nuse a::B;\n~~~\n", "![build](u)\n",
   "This crate does useful things.\n"}

\* one more piece of the text
FaultAppend ==
  /\ phase = "build"
  /\ nfrag < MaxFaultFrags
  /\ \E f \in FaultFragments : doc' = doc \o f
  /\ nfrag' = nfrag + 1
  /\ UNCHANGED <<auxVars, netVars, lastIndex, toolVars, blocks, phase, parseVars, cleanVars, description, langVars>>

NextFault ==
  \/ FaultAppend
  \/ TryParseUsageExamples
  \/ TryCleanMarkdown
  \/ TryExtractDescription
  \/ CleanAndParseReadme

SpecFault == Init /\ [][NextFault]_vars

\* C13: no call of parseUsageExamples, cleanMarkdown, extractDescription or
\* cleanAndParseReadme throws; after a caught fault the examples are the empty list,
\* the cleaned text is the text as given, the description is the sentinel.
C13_FaultsNeverThrown ==
  /\ phase # "thrown"
  /\ phase = "parsed, fault caught" => examples = <<>>
  /\ phase = "cleaned, fault caught" => cleaned = doc
  /\ phase = "described, fault caught" => description = "No description available"
  /\ phase = "cleaned and parsed, fault caught" => (examples = <<>> \/ cleaned = doc)

\* a fault was caught while a text with extractable examples was parsed
C13_Witness ==
  /\ phase = "parsed, fault caught"
  /\ Len(candidateExamples(doc)) > 0
  /\ examples = <<>>

(***************************************************************************)
(* Calls in sequence on the one parser of the process                      *)
(***************************************************************************)

\* the number of calls made one after the other
MaxSharedCalls == 3

\* a text with one usage section, one with two, one with none, one with a badge and prose
SharedDocs ==
  {"## Usage\n~~~rust\nuse a::B;\n~~~\n",
   "## Usage\n~~~rust\nuse a::B;\n~~~\n## Examples\n~~~sh\ncargo add a\n~~~\n",
   "## License\nMIT\n",
   "![build](u)\n\nThis crate does useful things.\n"}

\* a call readmeParser.parseUsageExamples(d, inc) after the calls made so far
SharedParse ==
  /\ nfrag < MaxSharedCalls
  /\ \E d \in SharedDocs, inc \in BOOLEAN :
       LET r == parseUsageExamplesShared(d, inc, lastIndex)
       IN /\ doc' = d
          /\ includeExamples' = inc
          /\ extractionRan' = ~skipsExtraction(d, inc)
          /\ examples' = r.value
          /\ lastIndex' = r.lastIndex
  /\ phase' = "parsed"
  /\ nfrag' = nfrag + 1
  /\ UNCHANGED <<auxVars, netVars, toolVars, blocks, cleanVars, description, langVars>>

\* a call readmeParser.cleanMarkdown(d) after the calls made so far
SharedClean ==
  /\ nfrag < MaxSharedCalls
  /\ \E d \in SharedDocs : doc' = d /\ cleaned' = cleanMarkdown(d)
  /\ phase' = "cleaned"
  /\ nfrag' = nfrag + 1
  /\ UNCHANGED <<auxVars, netVars, lastIndex, toolVars, blocks, parseVars, recleaned, description, langVars>>

\* a call readmeParser.extractDescription(d) after the calls made so far
SharedDescribe ==
  /\ nfrag < MaxSharedCalls
  /\ \E d \in SharedDocs : doc' = d /\ description' = extractDescription(d)
  /\ phase' = "described"
  /\ nfrag' = nfrag + 1
  /\ UNCHANGED <<auxVars, netVars, lastIndex, toolVars, blocks, parseVars, cleanVars, langVars>>

NextShared == SharedParse \/ SharedClean \/ SharedDescribe

SpecShared == Init /\ [][NextShared]_vars

\* C14: whatever calls came before, a call returns what the same call returns on a
\* parser that was never used: the value depends on the arguments of the call only.
C14_ResultDependsOnArgumentsOnly ==
  /\ phase = "parsed"
       => examples = parseUsageExamplesShared(doc, includeExamples, FreshLastIndex).value
  /\ phase = "cleaned" => cleaned = cleanMarkdown(doc)
  /\ phase = "described" => description = extractDescription(doc)

\* a text with two usage sections was parsed as the third call: both examples were
\* returned, and the first shared pattern is left with a lastIndex other than 0
C14_Witness ==
  /\ phase = "parsed"
  /\ nfrag = 3
  /\ lastIndex[1] > 0
  /\ Len(examples) = 2

(***************************************************************************)
(* Titles of the examples: one fenced block, its tag and its lines         *)
(***************************************************************************)

\* the number of lines of the code of the block
MaxCodeLines == 2

\* tags of every normalized language, some in upper case, and no tag
TitleTags ==
  {"rust", "RS", "sh", "Shell", "zsh", "bash", "json", "toml", "YAML", "yml", "python", ""}

\* lines of code that the title rules look for, and lines they do not
CodeLines ==
  {"use a::B;", "extern crate a;", "fn main() {}", "struct S;", "enum E {}", "impl S {}",
   "async fn f() {}", "x.await;", "assert!(x);", "#[test]", "let x = 1;",
   "cargo add a", "cargo install a", "cargo run", "cargo build", "ls"}

\* a usage section with one fenced block, tagged and still without code
InitTitle ==
  /\ InitTool
  /\ tag \in TitleTags
  /\ doc = "## Usage\n~~~" \o tag \o "\n~~~\n"
  /\ nfrag = 0
  /\ blocks = <<>>
  /\ phase = "build"
  /\ includeExamples = TRUE
  /\ extractionRan = FALSE
  /\ examples = <<>>
  /\ cleaned = ""
  /\ recleaned = ""
  /\ description = ""
  /\ lang = ""
  /\ relang = ""

\* one more line of code before the closing fence
CodeAppend ==
  /\ phase = "build"
  /\ nfrag < MaxCodeLines
  /\ \E line \in CodeLines : doc' = SubSeq(doc, 1, Len(doc) - 4) \o line \o "\n~~~\n"
  /\ nfrag' = nfrag + 1
  /\ UNCHANGED <<auxVars, netVars, lastIndex, toolVars, blocks, phase, parseVars, cleanVars, description,
                 langVars>>

NextTitle == CodeAppend \/ ParseUsageExamples

SpecTitle == InitTitle /\ [][NextTitle]_vars

\* the first line of a code, trimmed
FirstLineOf(code) == trim(split(code, "\n")[1])

\* the title of a rust body by the six rules of the documented contract
RustTitleBySixRules(code) ==
  IF includes(FirstLineOf(code), "use ") \/ includes(code, "extern crate") THEN "Basic Usage"
  ELSE IF includes(code, "fn main()") THEN "Complete Example"
  ELSE IF includes(code, "struct") \/ includes(code, "enum") THEN "Type Definitions"
  ELSE IF includes(code, "impl") THEN "Implementation Example"
  ELSE IF includes(code, "async") \/ includes(code, "await") THEN "Async Example"
  ELSE "Code Example"

\* C15 as stated: the title of a rust block follows the first matching of the rules
\* Basic Usage, Complete Example, Type Definitions, Implementation Example,
\* Async Example, and is Code Example for every other body.
C15_RustTitleBySixRules ==
  (phase = "parsed" /\ includeExamples) =>
    \A i \in 1..Len(examples) :
      examples[i].language = "rust" => examples[i].title = RustTitleBySixRules(examples[i].code)

\* C15, amended: as stated, but a body that matches none of the five rules and contains
\* '#[test]' or 'assert!' gives Test Example; only the remaining bodies give Code Example.
C15_RustTitleWithTestRule ==
  (phase = "parsed" /\ includeExamples) =>
    \A i \in 1..Len(examples) :
      examples[i].language = "rust" =>
        examples[i].title =
          IF RustTitleBySixRules(examples[i].code) # "Code Example"
          THEN RustTitleBySixRules(examples[i].code)
          ELSE IF includes(examples[i].code, "#[test]") \/ includes(examples[i].code, "assert!")
          THEN "Test Example"
          ELSE "Code Example"

\* a block tagged RS whose body matches none of the five rules and contains 'assert!'
\* was titled Test Example
C15_Witness ==
  /\ phase = "parsed"
  /\ includeExamples
  /\ tag = "RS"
  /\ Len(examples) = 1
  /\ examples[1].language = "rust"
  /\ includes(examples[1].code, "assert!")
  /\ RustTitleBySixRules(examples[1].code) = "Code Example"
  /\ examples[1].title = "Test Example"

\* the title the documented contract gives a block that is not rust, by its
\* normalized language
TitleByNormalizedLanguage(language, code) ==
  IF language = "bash"
  THEN IF includes(FirstLineOf(code), "cargo install") \/ includes(FirstLineOf(code), "cargo add")
       THEN "Installation"
       ELSE IF includes(FirstLineOf(code), "cargo run") \/ includes(FirstLineOf(code), "cargo build")
       THEN "Build and Run"
       ELSE "Command Line Usage"
  ELSE IF language = "json" THEN "JSON Configuration"
  ELSE IF language = "toml" THEN "Cargo.toml Configuration"
  ELSE IF language = "yaml" THEN "Configuration"
  ELSE "Code Example"

\* C16: the title of a block that is not rust is determined by its normalized language
\* and its code: Installation, Build and Run or Command Line Usage for bash,
\* JSON Configuration, Cargo.toml Configuration, Configuration for yaml, and
\* Code Example for any other language.
C16_TitleByNormalizedLanguage ==
  (phase = "parsed" /\ includeExamples) =>
    \A i \in 1..Len(examples) :
      examples[i].language # "rust" =>
        examples[i].title = TitleByNormalizedLanguage(examples[i].language, examples[i].code)

\* a block tagged zsh, an alias of bash, that adds a crate was titled Installation
C16_Witness ==
  /\ phase = "parsed"
  /\ includeExamples
  /\ tag = "zsh"
  /\ Len(examples) = 1
  /\ examples[1].language = "bash"
  /\ FirstLineOf(examples[1].code) = "cargo add a"
  /\ examples[1].title = "Installation"

(***************************************************************************)
(* A usage section followed by other sections                              *)
(***************************************************************************)

\* the number of pieces of a text with sections
MaxSectionFrags == 4

RustBlock == "~~~rust\nuse a::B;\n~~~\n"

TomlBlock == "~~~toml\n[dependencies]\na = 1\n~~~\n"

\* a usage header, a header of the same level and one of a deeper level that are not
\* of the usage vocabulary, and two fenced blocks
SectionFragments ==
  {"## Usage\n", "## Installation\n", "### Details\n", RustBlock, TomlBlock}

\* one more piece of the text
SectionAppend ==
  /\ phase = "build"
  /\ nfrag < MaxSectionFrags
  /\ \E f \in SectionFragments : doc' = doc \o f
  /\ nfrag' = nfrag + 1
  /\ UNCHANGED <<auxVars, netVars, lastIndex, toolVars, blocks, phase, parseVars, cleanVars, description,
                 langVars>>

NextSection == SectionAppend \/ ParseUsageExamples

SpecSection == Init /\ [][NextSection]_vars

\* C17: for a Usage section with a rust block followed by an Installation section of
\* the same level with a toml block, parseUsageExamples returns the rust example,
\* titled Basic Usage, and then the toml example, titled Cargo.toml Configuration.
C17_BlocksUnderLaterHeaderReturned ==
  (/\ phase = "parsed"
   /\ includeExamples
   /\ doc = "## Usage\n" \o RustBlock \o "## Installation\n" \o TomlBlock)
  => /\ Len(examples) = 2
     /\ examples[1].language = "rust" /\ examples[1].title = "Basic Usage"
     /\ examples[2].language = "toml" /\ examples[2].title = "Cargo.toml Configuration"

(***************************************************************************)
(* error-handler: handleApiError, handleHttpError, withRetry               *)
(***************************************************************************)

\* an error object: the name of its class, its message, its code and its statusCode
\* (0 where the source leaves it undefined); code is "" for an Error that is not a
\* PackageReadmeMcpError
ErrorOf(name, message, code, statusCode) ==
  [name |-> name, message |-> message, code |-> code, statusCode |-> statusCode]

NoError == ErrorOf("", "", "", 0)

PackageReadmeMcpError(message, code, statusCode) ==
  ErrorOf("PackageReadmeMcpError", message, code, statusCode)

PackageNotFoundError == ErrorOf("PackageNotFoundError", "Package not found", "PACKAGE_NOT_FOUND", 404)

VersionNotFoundError == ErrorOf("VersionNotFoundError", "Version not found", "VERSION_NOT_FOUND", 404)

RateLimitError == ErrorOf("RateLimitError", "Rate limit exceeded", "RATE_LIMIT_EXCEEDED", 429)

NetworkError(message) == ErrorOf("NetworkError", "Network error: " \o message, "NETWORK_ERROR", 0)

\* error instanceof PackageReadmeMcpError
isPackageReadmeMcpError(error) ==
  error.name \in {"PackageReadmeMcpError", "PackageNotFoundError", "VersionNotFoundError",
                  "RateLimitError", "NetworkError"}

\* handleApiError: the error it throws for the error it is given
handleApiError(error) ==
  IF isPackageReadmeMcpError(error) THEN error
  ELSE IF error.name = "TypeError" /\ includes(error.message, "fetch")
  THEN NetworkError("Failed to connect")
  ELSE IF error.name = "AbortError" \/ includes(error.message, "timeout")
  THEN NetworkError("Request timeout")
  ELSE PackageReadmeMcpError("Unexpected error: " \o error.message, "UNEXPECTED_ERROR", 0)

\* handleHttpError: the error it throws for the status of the response
handleHttpError(status) ==
  IF status = 404 THEN PackageNotFoundError
  ELSE IF status = 429 THEN RateLimitError
  ELSE IF status \in {500, 502, 503, 504} THEN NetworkError("Server error")
  ELSE PackageReadmeMcpError("HTTP error", "HTTP_ERROR", status)

isRetryableError(error) ==
  \/ error.code \in {"NETWORK_ERROR", "RATE_LIMIT_EXCEEDED", "HTTP_ERROR"}
  \/ (error.statusCode # 0 /\ error.statusCode >= 500)

\* the test of withRetry for an error that is thrown on at once
notRetried(error) ==
  \/ error.name = "PackageNotFoundError"
  \/ (isPackageReadmeMcpError(error) /\ ~isRetryableError(error))

\* what a promise settles to: a string, null, or a rejection with an error
ResolvedText(text) == [state |-> "resolved", isNull |-> FALSE, text |-> text, error |-> NoError]

ResolvedNull == [state |-> "resolved", isNull |-> TRUE, text |-> "", error |-> NoError]

Rejected(error) == [state |-> "rejected", isNull |-> FALSE, text |-> "", error |-> error]

Unsettled == [state |-> "pending", isNull |-> FALSE, text |-> "", error |-> NoError]

\* one pass of the loop without the test attempt === maxRetries: a retryable error of
\* the last attempt is slept upon as well
withRetrySleepsAfterLast(operation, attempt, maxRetries) ==
  IF operation.state = "resolved" THEN operation
  ELSE IF notRetried(operation.error) THEN operation
  ELSE Unsettled

\* one pass of the loop of withRetry for the outcome of operation(): the value is
\* returned, the error is thrown on, or the loop sleeps and goes round again
withRetry(operation, attempt, maxRetries) ==
  IF operation.state = "resolved" THEN operation
  ELSE IF notRetried(operation.error) THEN operation
  ELSE IF attempt = maxRetries THEN operation
  ELSE Unsettled

(***************************************************************************)
(* What fetch and the reading of the response body can do                  *)
(***************************************************************************)

\* fetch resolves with a response, whose text() resolves or rejects, or it rejects
ResponseOf(status, body) ==
  [thrown |-> FALSE, status |-> status, body |-> body, bodyFails |-> FALSE, error |-> NoError]

BrokenBodyOf(status) ==
  [thrown |-> FALSE, status |-> status, body |-> "", bodyFails |-> TRUE,
   error |-> ErrorOf("TypeError", "terminated", "", 0)]

FetchRejects(error) ==
  [thrown |-> TRUE, status |-> 0, body |-> "", bodyFails |-> FALSE, error |-> error]

\* fetch cannot connect
FetchFailed == ErrorOf("TypeError", "fetch failed", "", 0)

\* the timer of the request fired and controller.abort() ended the fetch
AbortError == ErrorOf("AbortError", "This operation was aborted", "", 0)

Statuses == {200, 403, 404, 429, 500}

Bodies == {"", "# Serde\n"}

FetchOutcomes ==
  { ResponseOf(s, b) : s \in Statuses, b \in Bodies }
  \cup { BrokenBodyOf(200), FetchRejects(FetchFailed), FetchRejects(AbortError) }

\* response.ok
ok(status) == status >= 200 /\ status <= 299

(***************************************************************************)
(* GitHubApiClient                                                         *)
(***************************************************************************)

\* url.replace(/^p/, r)
replacePrefix(url, p, r) ==
  IF startsWith(url, p) THEN r \o SubSeq(url, Len(p) + 1, Len(url)) ELSE url

\* url.replace(/p$/, '')
removeSuffix(url, p) ==
  IF Len(url) >= Len(p) /\ SubSeq(url, Len(url) - Len(p) + 1, Len(url)) = p
  THEN SubSeq(url, 1, Len(url) - Len(p))
  ELSE url

\* url.match(/github\.com\/([^\/]+)\/([^\/]+)/) at position i
repositoryMatchAt(url, i) ==
  LET ownerAt == i + Len("github.com/")
      owner == RunLenNot(url, ownerAt, {"/"})
      repoAt == ownerAt + owner + 1
      repo == RunLenNot(url, repoAt, {"/"})
  IN [found |-> /\ startsWithAt(url, "github.com/", i)
                /\ owner >= 1
                /\ At(url, ownerAt + owner) = "/"
                /\ repo >= 1,
      owner |-> SubSeq(url, ownerAt, ownerAt + owner - 1),
      repo |-> SubSeq(url, repoAt, repoAt + repo - 1)]

NoRepository == [found |-> FALSE, owner |-> "", repo |-> ""]

\* parseRepositoryUrl for a repository given as a string: the owner and the
\* repository of the first match, or null
parseRepositoryUrl(repository) ==
  LET u1 == replacePrefix(repository, "git+", "")
      u2 == removeSuffix(u1, ".git")
      u3 == replacePrefix(u2, "git@github.com:", "https://github.com/")
      u4 == replacePrefix(u3, "git://", "https://")
      url == replacePrefix(u4, "ssh://git@", "https://")
      Matches(i) == repositoryMatchAt(url, i).found
  IN IF \E i \in 1..Len(url) : Matches(i)
     THEN repositoryMatchAt(url,
            CHOOSE i \in 1..Len(url) : Matches(i) /\ \A k \in 1..(i - 1) : ~Matches(k))
     ELSE NoRepository

\* the operation getReadmeFromRepository hands to withRetry (lines 26-66): null for
\* a 404, the text of an OK response, and the error of handleHttpError or of
\* handleApiError thrown otherwise
githubOperation(raw) ==
  IF raw.thrown
  THEN IF raw.error.name = "AbortError"
       THEN Rejected(handleApiError(ErrorOf("Error", "Request timeout", "", 0)))
       ELSE Rejected(handleApiError(raw.error))
  ELSE IF ~ok(raw.status)
  THEN IF raw.status = 404 THEN ResolvedNull
       ELSE Rejected(handleApiError(handleHttpError(raw.status)))
  ELSE IF raw.bodyFails THEN Rejected(handleApiError(raw.error))
  ELSE ResolvedText(raw.body)

\* the retries getReadmeFromRepository asks withRetry for
GitHubMaxRetries == 3

\* the try block of getReadmeFromRepository returns the promise of withRetry without
\* awaiting it (line 26): the block is left before the promise settles, the catch of
\* line 67 does not see its rejection, and the call settles as the promise does
settleAsReturnedPromise(promise) == promise

\* the repository arguments of the calls
Repositories ==
  {"https://github.com/serde-rs/serde", "git+https://github.com/serde-rs/serde.git",
   "git@github.com:serde-rs/serde.git", "https://github.com/serde-rs",
   "https://gitlab.com/serde-rs/serde", "invalid-url"}

\* getReadmeFromRepository up to its first await: the URL is parsed, and the first
\* attempt arms its timer and sends its request
GetReadmeFromRepository ==
  /\ github.pc \in {"idle", "settled"}
  /\ \E repository \in Repositories :
       IF ~parseRepositoryUrl(repository).found
       THEN github' = [pc |-> "settled", repository |-> repository, attempt |-> 0,
                       timer |-> "none", lastError |-> NoError, outcome |-> ResolvedNull]
       ELSE github' = [pc |-> "request", repository |-> repository, attempt |-> 1,
                       timer |-> "armed", lastError |-> NoError, outcome |-> Unsettled]
  /\ UNCHANGED <<auxVars, cratesIo, fetcher, lastIndex, toolVars, docVars, phase, parseVars,
                 cleanVars, description, langVars>>

\* the request of an attempt ends: the operation returns or throws, its finally
\* clears the timer, and withRetry returns, throws or sleeps
GitHubAnswers ==
  /\ github.pc = "request"
  /\ \E raw \in FetchOutcomes :
       LET operation == githubOperation(raw)
           pass == withRetry(operation, github.attempt, GitHubMaxRetries)
       IN github' = [github EXCEPT
                       !.timer = "cleared",
                       !.lastError = IF operation.state = "rejected" THEN operation.error
                                     ELSE @,
                       !.pc = IF pass.state = "pending" THEN "sleep" ELSE "settled",
                       !.outcome = settleAsReturnedPromise(pass)]
  /\ UNCHANGED <<auxVars, cratesIo, fetcher, lastIndex, toolVars, docVars, phase, parseVars,
                 cleanVars, description, langVars>>

\* the sleep of withRetry ends and the next attempt arms its timer and sends its
\* request
GitHubRetries ==
  /\ github.pc = "sleep"
  /\ github' = [github EXCEPT !.pc = "request", !.attempt = @ + 1, !.timer = "armed"]
  /\ UNCHANGED <<auxVars, cratesIo, fetcher, lastIndex, toolVars, docVars, phase, parseVars,
                 cleanVars, description, langVars>>

NextGitHub == GetReadmeFromRepository \/ GitHubAnswers \/ GitHubRetries

SpecGitHub == Init /\ [][NextGitHub]_vars

\* C19: every getReadmeFromRepository call that has settled resolved, to a string or
\* to null, whatever the repository argument and whatever the network did.
C19_NeverRejects ==
  github.pc = "settled" => github.outcome.state = "resolved"

(***************************************************************************)
(* CratesIoApiClient.getReadmeContent                                      *)
(***************************************************************************)

\* what the requests of getVersionInfo meet at the registry API
MetadataOutcomes == {"answered", "unreachable", "timed out", "rate limited", "server error"}

\* the readme_path of the version record: present or not
ReadmePaths == {"", "/api/v1/crates/serde/1.0.0/readme", "/api/v1/crates/serde/latest/readme"}

VersionInfoOf(readme_path) == [state |-> "resolved", error |-> NoError, readme_path |-> readme_path]

VersionInfoRejected(error) == [state |-> "rejected", error |-> error, readme_path |-> ""]

\* getVersionInfo: getCrateInfo rejects when the registry cannot be reached or has
\* no such crate, the version is resolved and looked up in the versions of the crate,
\* and the version record is fetched
getVersionInfo(crateName, version, metadata, readme_path) ==
  LET actualVersion == IF version = "latest" THEN RegistryVersion ELSE version
  IN IF metadata = "unreachable"
     THEN VersionInfoRejected(handleApiError(FetchFailed))
     ELSE IF metadata = "timed out"
     THEN VersionInfoRejected(handleApiError(ErrorOf("Error", "Request timeout", "", 0)))
     ELSE IF metadata = "rate limited"
     THEN VersionInfoRejected(handleApiError(handleHttpError(429)))
     ELSE IF metadata = "server error"
     THEN VersionInfoRejected(handleApiError(handleHttpError(500)))
     ELSE IF crateName \notin Registry
     THEN VersionInfoRejected(handleApiError(handleHttpError(404)))
     ELSE IF actualVersion # RegistryVersion
     THEN VersionInfoRejected(VersionNotFoundError)
     ELSE VersionInfoOf(readme_path)

\* a catch block that throws the error on
rethrows(error) == Rejected(error)

\* the catch blocks of getReadmeContent (lines 546-548 and 552-555)
getReadmeContentCatch(error) == ResolvedNull

\* the inner try block of getReadmeContent (lines 529-548) for what fetch and
\* response.text() do
readmeRequest(raw) ==
  IF raw.thrown THEN getReadmeContentCatch(raw.error)
  ELSE IF ~ok(raw.status) THEN ResolvedNull
  ELSE IF raw.bodyFails THEN getReadmeContentCatch(raw.error)
  ELSE ResolvedText(raw.body)

\* clearTimeout(timeoutId) of the finally block (line 550)
clearTimeout(timer) == "cleared"

\* getReadmeContent up to its first await
GetReadmeContent ==
  /\ cratesIo.pc \in {"idle", "settled"}
  /\ \E crateName \in PackageNames, version \in Versions :
       cratesIo' = [pc |-> "versionInfo", crateName |-> crateName, version |-> version,
                    versionInfo |-> VersionInfoOf(""), timer |-> "none",
                    raw |-> FetchRejects(NoError), outcome |-> Unsettled]
  /\ UNCHANGED <<auxVars, github, fetcher, lastIndex, toolVars, docVars, phase, parseVars,
                 cleanVars, description, langVars>>

\* getVersionInfo settles: a rejection is caught and the call returns null, a version
\* without readme_path returns null, and otherwise the timer is armed and the README
\* is requested
VersionInfoSettles ==
  /\ cratesIo.pc = "versionInfo"
  /\ \E metadata \in MetadataOutcomes, readme_path \in ReadmePaths :
       LET versionInfo == getVersionInfo(cratesIo.crateName, cratesIo.version,
                                         metadata, readme_path)
       IN IF versionInfo.state = "rejected"
          THEN cratesIo' = [cratesIo EXCEPT !.pc = "settled", !.versionInfo = versionInfo,
                              !.outcome = getReadmeContentCatch(versionInfo.error)]
          ELSE IF versionInfo.readme_path = ""
          THEN cratesIo' = [cratesIo EXCEPT !.pc = "settled", !.versionInfo = versionInfo,
                              !.outcome = ResolvedNull]
          ELSE cratesIo' = [cratesIo EXCEPT !.pc = "request", !.versionInfo = versionInfo,
                              !.timer = "armed"]
  /\ UNCHANGED <<auxVars, github, fetcher, lastIndex, toolVars, docVars, phase, parseVars,
                 cleanVars, description, langVars>>

\* the request for the README ends: the inner try block returns, and its finally
\* clears the timer
ReadmeAnswers ==
  /\ cratesIo.pc = "request"
  /\ \E raw \in FetchOutcomes :
       cratesIo' = [cratesIo EXCEPT !.pc = "settled", !.raw = raw,
                       !.timer = clearTimeout(@),
                       !.outcome = readmeRequest(raw)]
  /\ UNCHANGED <<auxVars, github, fetcher, lastIndex, toolVars, docVars, phase, parseVars,
                 cleanVars, description, langVars>>

NextCrates == GetReadmeContent \/ VersionInfoSettles \/ ReadmeAnswers

SpecCrates == Init /\ [][NextCrates]_vars

\* the call sent the request for the README
RequestedReadme == cratesIo.versionInfo.state = "resolved" /\ cratesIo.versionInfo.readme_path # ""

\* C20: a getReadmeContent call that has settled resolved; it resolved to null when
\* the crate or the version does not exist, when the version has no readme_path, and
\* when the request for the README met a status that is not OK, failed or timed out;
\* it resolved to the text of the response when the request was answered OK; and no
\* timer is left armed.
C20_ResolvesAndClearsTimer ==
  cratesIo.pc = "settled" =>
    /\ cratesIo.outcome.state = "resolved"
    /\ cratesIo.timer # "armed"
    /\ cratesIo.crateName \notin Registry => cratesIo.outcome.isNull
    /\ (cratesIo.version \notin {"latest", RegistryVersion}) => cratesIo.outcome.isNull
    /\ cratesIo.versionInfo.state = "rejected" => cratesIo.outcome.isNull
    /\ (cratesIo.versionInfo.state = "resolved" /\ cratesIo.versionInfo.readme_path = "")
         => cratesIo.outcome.isNull
    /\ (RequestedReadme /\ (cratesIo.raw.thrown \/ ~ok(cratesIo.raw.status) \/ cratesIo.raw.bodyFails))
         => cratesIo.outcome.isNull
    /\ (RequestedReadme /\ ~cratesIo.raw.thrown /\ ok(cratesIo.raw.status) /\ ~cratesIo.raw.bodyFails)
         => (~cratesIo.outcome.isNull /\ cratesIo.outcome.text = cratesIo.raw.body)
    /\ RequestedReadme <=> cratesIo.timer = "cleared"

\* a call whose request for the README timed out has settled
C20_Witness ==
  /\ cratesIo.pc = "settled"
  /\ RequestedReadme
  /\ cratesIo.raw.thrown /\ cratesIo.raw.error = AbortError
  /\ cratesIo.timer = "cleared"
  /\ cratesIo.outcome = ResolvedNull

(***************************************************************************)
(* ReadmeFetcher.fetchReadme                                               *)
(***************************************************************************)

\* the truth value JavaScript gives a string that is not null
notNull(readme) == ~readme.isNull

\* the truth value JavaScript gives a value of type string | null
truthy(readme) == ~readme.isNull /\ readme.text # ""

\* what a getReadmeContent call can settle to
ReadmeContentOutcomes ==
  {ResolvedNull} \cup { readmeRequest(raw) : raw \in FetchOutcomes }

\* what a getReadmeFromRepository call can settle to for a URL that parses: the
\* outcome of its last attempt
ReadmeFromRepositoryOutcomes ==
  { settleAsReturnedPromise(githubOperation(raw)) : raw \in FetchOutcomes }

\* the repositoryUrl arguments of the calls; "" is the argument left out
RepositoryUrls == {""} \cup Repositories

\* fetchReadme up to its first await: crates.io is asked for the README
FetchReadme ==
  /\ fetcher.pc \in {"idle", "settled"}
  /\ \E packageName \in PackageNames, version \in Versions, repositoryUrl \in RepositoryUrls :
       fetcher' = [pc |-> "crates.io", packageName |-> packageName, version |-> version,
                   repositoryUrl |-> repositoryUrl, contacted |-> <<"crates.io">>,
                   cratesIoReadme |-> Unsettled, githubReadme |-> Unsettled,
                   state |-> "pending", content |-> "", source |-> "none"]
  /\ UNCHANGED <<auxVars, cratesIo, github, lastIndex, toolVars, docVars, phase, parseVars,
                 cleanVars, description, langVars>>

\* getReadmeContent settles: its README is returned, or the repository is asked, or
\* there is none to ask (no URL, or one that parseRepositoryUrl turns down) and the
\* empty result is returned
CratesIoReturns ==
  /\ fetcher.pc = "crates.io"
  /\ \E cratesIoReadme \in ReadmeContentOutcomes :
       IF cratesIoReadme.state = "rejected"
       THEN fetcher' = [fetcher EXCEPT !.pc = "settled", !.cratesIoReadme = cratesIoReadme,
                          !.state = "rejected"]
       ELSE IF truthy(cratesIoReadme)
       THEN fetcher' = [fetcher EXCEPT !.pc = "settled", !.cratesIoReadme = cratesIoReadme,
                          !.state = "resolved", !.content = cratesIoReadme.text,
                          !.source = "crates.io"]
       ELSE IF fetcher.repositoryUrl # "" /\ parseRepositoryUrl(fetcher.repositoryUrl).found
       THEN fetcher' = [fetcher EXCEPT !.pc = "github", !.cratesIoReadme = cratesIoReadme,
                          !.contacted = Append(@, "github")]
       ELSE fetcher' = [fetcher EXCEPT !.pc = "settled", !.cratesIoReadme = cratesIoReadme,
                          !.githubReadme = IF fetcher.repositoryUrl # "" THEN ResolvedNull
                                           ELSE @,
                          !.state = "resolved"]
  /\ UNCHANGED <<auxVars, cratesIo, github, lastIndex, toolVars, docVars, phase, parseVars,
                 cleanVars, description, langVars>>

\* getReadmeFromRepository settles: its README is returned, or the empty result, or
\* its rejection is thrown on
GitHubReturns ==
  /\ fetcher.pc = "github"
  /\ \E githubReadme \in ReadmeFromRepositoryOutcomes :
       IF githubReadme.state = "rejected"
       THEN fetcher' = [fetcher EXCEPT !.pc = "settled", !.githubReadme = githubReadme,
                          !.state = "rejected"]
       ELSE IF truthy(githubReadme)
       THEN fetcher' = [fetcher EXCEPT !.pc = "settled", !.githubReadme = githubReadme,
                          !.state = "resolved", !.content = githubReadme.text,
                          !.source = "github"]
       ELSE fetcher' = [fetcher EXCEPT !.pc = "settled", !.githubReadme = githubReadme,
                          !.state = "resolved"]
  /\ UNCHANGED <<auxVars, cratesIo, github, lastIndex, toolVars, docVars, phase, parseVars,
                 cleanVars, description, langVars>>

NextFetch == FetchReadme \/ CratesIoReturns \/ GitHubReturns

SpecFetch == Init /\ [][NextFetch]_vars

\* the hosts the call has contacted so far
Contacted(host) == \E i \in 1..Len(fetcher.contacted) : fetcher.contacted[i] = host

\* the value is a README: a string that is not empty
IsReadme(readme) == readme.state = "resolved" /\ ~readme.isNull /\ readme.text # ""

\* C18: fetchReadme contacts GitHub only after crates.io has returned no README (null
\* or the empty string) and only when a repository URL is known, and never when
\* crates.io gave a README; the source of the result is crates.io or github exactly
\* when the content is the README that host gave, and none exactly when the content
\* is the empty string.
C18_GitHubOnlyAsFallback ==
  fetcher.pc # "idle" =>
    /\ Contacted("github") =>
         /\ fetcher.contacted = <<"crates.io", "github">>
         /\ fetcher.cratesIoReadme.state = "resolved"
         /\ ~IsReadme(fetcher.cratesIoReadme)
         /\ fetcher.repositoryUrl # ""
    /\ IsReadme(fetcher.cratesIoReadme) => ~Contacted("github")
    /\ (fetcher.pc = "settled" /\ fetcher.state = "resolved") =>
         /\ fetcher.source = "crates.io"
              <=> (IsReadme(fetcher.cratesIoReadme) /\ fetcher.content = fetcher.cratesIoReadme.text)
         /\ fetcher.source = "github"
              <=> (/\ Contacted("github")
                   /\ IsReadme(fetcher.githubReadme)
                   /\ fetcher.content = fetcher.githubReadme.text)
         /\ fetcher.source = "none" <=> fetcher.content = ""

\* crates.io returned the empty string, the repository was asked and its README is
\* the result
C18_Witness ==
  /\ fetcher.pc = "settled"
  /\ fetcher.state = "resolved"
  /\ fetcher.cratesIoReadme = ResolvedText("")
  /\ fetcher.contacted = <<"crates.io", "github">>
  /\ fetcher.source = "github"
  /\ fetcher.content # ""

(***************************************************************************)
(* server.ts: handleToolCall for get_readme_from_cargo                     *)
(***************************************************************************)

\* a JavaScript value of an arguments object: undefined (the property is absent),
\* null, a string or a boolean
JsUndefined == [type |-> "undefined", text |-> "", bool |-> FALSE]

JsNull == [type |-> "null", text |-> "", bool |-> FALSE]

JsString(text) == [type |-> "string", text |-> text, bool |-> FALSE]

JsBoolean(bool) == [type |-> "boolean", text |-> "", bool |-> bool]

\* String(value)
StringOf(value) ==
  CASE value.type = "undefined" -> "undefined"
    [] value.type = "null" -> "null"
    [] value.type = "string" -> value.text
    [] value.type = "boolean" -> IF value.bool THEN "true" ELSE "false"

\* Boolean(value)
BooleanOf(value) ==
  CASE value.type = "undefined" -> FALSE
    [] value.type = "null" -> FALSE
    [] value.type = "string" -> value.text # ""
    [] value.type = "boolean" -> value.bool

\* the arguments of the calls: whether args is an object, and its three properties
ToolArgs ==
  [isObject : BOOLEAN,
   package_name : {JsUndefined, JsNull, JsString("serde"), JsString("std")},
   version : {JsUndefined, JsString("1.0")},
   include_examples : {JsUndefined, JsBoolean(FALSE)}]

ToolNames == {"get_readme_from_cargo", "no_such_tool"}

\* the names a call can reach getPackageReadme with
ServerPackageNames == PackageNames \cup {"undefined", "null"}

ServerCacheKeys == { packageReadmeKey(n, v) : n \in ServerPackageNames, v \in Versions }

\* validateGetPackageReadmeParams: whether it returns, and the params it returns
\* with the defaults of getPackageReadme (line 17 of get-package-readme.ts) filled in
validateGetPackageReadmeParams(args) ==
  LET package_name == StringOf(args.package_name)
      version == StringOf(args.version)
  IN IF ~validatePackageName(package_name)
     THEN [returns |-> FALSE, params |-> NoParams]
     ELSE IF args.version.type # "undefined" /\ ~validateVersion(version)
     THEN [returns |-> FALSE, params |-> NoParams]
     ELSE [returns |-> TRUE,
           params |-> [package_name |-> package_name,
                       version |-> IF args.version.type # "undefined" THEN version
                                   ELSE "latest",
                       include_examples |->
                         IF args.include_examples.type # "undefined"
                         THEN BooleanOf(args.include_examples)
                         ELSE TRUE]]

\* how many calls wait for the registry at a time
MaxServerInflight == 1

\* the outcome of a handleToolCall: what was asked, whether getPackageReadme was
\* called, whether it read the cache and whether it went on to the registry
ToolOutcome(kind, name, args, params, value, called, cacheRead, requested) ==
  [kind |-> kind, name |-> name, args |-> args, params |-> params, value |-> value,
   called |-> called, cacheRead |-> cacheRead, requested |-> requested]

\* handleToolCall up to the first await of getPackageReadme
HandleToolCall ==
  /\ \E name \in ToolNames, args \in ToolArgs :
       LET validated == validateGetPackageReadmeParams(args)
           params == validated.params
           cached == cacheGet(cache, packageReadmeKey(params.package_name, params.version))
       IN IF ~args.isObject \/ name # "get_readme_from_cargo" \/ ~validated.returns
          THEN /\ response' = ToolOutcome("error", name, args, NoParams, NoValue,
                                          FALSE, FALSE, FALSE)
               /\ UNCHANGED pending
          ELSE IF ~validatePackageName(params.package_name)
                  \/ (params.version # "latest" /\ ~validateVersion(params.version))
          THEN /\ response' = ToolOutcome("error", name, args, params, NoValue,
                                          TRUE, FALSE, FALSE)
               /\ UNCHANGED pending
          ELSE IF cached.hit
          THEN /\ response' = ToolOutcome("value", name, args, params, cached.value,
                                          TRUE, TRUE, FALSE)
               /\ UNCHANGED pending
          ELSE /\ Cardinality(pending) < MaxServerInflight
               /\ pending' = pending \cup {params}
               /\ response' = ToolOutcome("pending", name, args, params, NoValue,
                                          TRUE, TRUE, TRUE)
  /\ UNCHANGED <<auxVars, netVars, cache, lastIndex, docVars, phase, parseVars, cleanVars,
                 description, langVars>>

\* the server before any call, with an empty cache
InitServer ==
  /\ cache = [k \in ServerCacheKeys |-> Miss]
  /\ pending = {}
  /\ response = NoResponse
  /\ lastIndex = FreshLastIndex
  /\ cratesIo = NoCall
  /\ github = NoCall
  /\ fetcher = NoCall
  /\ scan = NoCall
  /\ retry = NoCall
  /\ recovery = FreshRecovery
  /\ doc = ""
  /\ nfrag = 0
  /\ blocks = <<>>
  /\ phase = "build"
  /\ includeExamples = TRUE
  /\ extractionRan = FALSE
  /\ examples = <<>>
  /\ cleaned = ""
  /\ recleaned = ""
  /\ description = ""
  /\ tag = ""
  /\ lang = ""
  /\ relang = ""

NextServer == HandleToolCall \/ Complete

SpecServer == InitServer /\ [][NextServer]_vars

\* C21: a handleToolCall for get_readme_from_cargo whose arguments have no
\* package_name, or a null one, ends in a validation error, and getPackageReadme is
\* not called, the cache is not read and the registry is not asked.
C21_MissingNameRejected ==
  (/\ "args" \in DOMAIN response
   /\ response.name = "get_readme_from_cargo"
   /\ response.args.isObject
   /\ response.args.package_name.type \in {"undefined", "null"})
  => /\ response.kind = "error"
     /\ ~response.called
     /\ ~response.cacheRead
     /\ ~response.requested

(***************************************************************************)
(* extractUsageSections, line by line                                      *)
(***************************************************************************)

\* how many lines the scanned text has
MaxScanLines == 3

\* usage headers of two levels, other headers of two levels, a line of text, two
\* bare usage lines and a fenced block
ScanLineSet ==
  {"## Usage", "### Examples", "## License", "### Notes", "text", "Usage:", "Examples:",
   "~~~rust\nlet x = 1;\n~~~"}

\* one more line of the text
ScanAppend ==
  /\ phase = "build"
  /\ nfrag < MaxScanLines
  /\ \E line \in ScanLineSet : doc' = IF nfrag = 0 THEN line ELSE doc \o "\n" \o line
  /\ nfrag' = nfrag + 1
  /\ UNCHANGED <<scan, retry, recovery, netVars, lastIndex, toolVars, blocks, phase,
                 parseVars, cleanVars, description, langVars>>

\* extractUsageSections(doc) up to its for loop (lines 59-63)
ExtractUsageSections ==
  /\ phase = "build"
  /\ phase' = "scanning"
  /\ scan' = [pc |-> "scanning", lines |-> split(doc, "\n"), i |-> 0, st |-> ScanStart,
              sections |-> <<>>]
  /\ UNCHANGED <<retry, recovery, netVars, lastIndex, toolVars, docVars, parseVars,
                 cleanVars, description, langVars>>

\* one iteration of the for loop (lines 65-92)
ScanNextLine ==
  /\ scan.pc = "scanning"
  /\ scan.i < Len(scan.lines)
  /\ scan' = [scan EXCEPT !.i = @ + 1, !.st = ScanLine(scan.st, scan.lines[scan.i + 1])]
  /\ UNCHANGED <<retry, recovery, netVars, lastIndex, toolVars, docVars, phase, parseVars,
                 cleanVars, description, langVars>>

\* the end of the loop: the open section is pushed and the sections are returned
\* (lines 94-98)
ScanReturn ==
  /\ scan.pc = "scanning"
  /\ scan.i = Len(scan.lines)
  /\ scan' = [scan EXCEPT !.pc = "returned",
                          !.sections = IF Len(scan.st.currentSection) > 0
                                       THEN Append(scan.st.sections,
                                                   join(scan.st.currentSection, "\n"))
                                       ELSE scan.st.sections]
  /\ phase' = "scanned"
  /\ UNCHANGED <<retry, recovery, netVars, lastIndex, toolVars, docVars, parseVars,
                 cleanVars, description, langVars>>

NextScan == ScanAppend \/ ExtractUsageSections \/ ScanNextLine \/ ScanReturn

SpecScan == Init /\ [][NextScan]_vars

\* the number of hashes a line starts with
HashesOf(line) ==
  CHOOSE h \in 0..Len(line) : (\A k \in 1..h : At(line, k) = "#") /\ At(line, h + 1) # "#"

\* a line of 1 to 6 hashes followed by white space
IsHeaderLine(line) == HashesOf(line) \in 1..6 /\ At(line, HashesOf(line) + 1) \in WhiteSpace

\* the positions of the usage headers among the lines of the scanned text
UsageStarts == { i \in 1..Len(scan.lines) : IsVocabularyHashHeader(scan.lines[i]) }

\* the position of the k-th usage header
UsageStart(k) == CHOOSE i \in UsageStarts : Cardinality({ j \in UsageStarts : j < i }) = k - 1

\* the position after the last line that can belong to the k-th section: the next
\* usage header, or the end of the text
NextStart(k) ==
  IF k < Cardinality(UsageStarts) THEN UsageStart(k + 1) ELSE Len(scan.lines) + 1

\* C22: extractUsageSections returns one section per usage header, in the order of
\* the text; each section is a run of lines of the text that starts with its usage
\* header and ends before the next usage header, so that no line is in two sections;
\* a usage header opens a new section at its own level, closing the open one; the
\* end of the text closes the open section; and between two lines of the scan the
\* section buffer is non-empty exactly when a usage section is open.
C22_OneSectionPerUsageHeader ==
  /\ scan.pc = "scanning" =>
       /\ Len(scan.st.currentSection) > 0 <=> scan.st.inUsageSection
       /\ (scan.i >= 1 /\ scan.i \in UsageStarts) =>
            /\ scan.st.currentSection = <<scan.lines[scan.i]>>
            /\ scan.st.sectionLevel = HashesOf(scan.lines[scan.i])
            /\ Len(scan.st.sections) = Cardinality({ j \in UsageStarts : j < scan.i })
  /\ scan.pc = "returned" =>
       /\ Len(scan.sections) = Cardinality(UsageStarts)
       /\ \A k \in 1..Len(scan.sections) :
            LET body == split(scan.sections[k], "\n")
            IN /\ body[1] = scan.lines[UsageStart(k)]
               /\ UsageStart(k) + Len(body) <= NextStart(k)
               /\ body = SubSeq(scan.lines, UsageStart(k), UsageStart(k) + Len(body) - 1)
       /\ (scan.st.inUsageSection /\ Cardinality(UsageStarts) > 0) =>
            LET last == split(scan.sections[Len(scan.sections)], "\n")
            IN UsageStart(Len(scan.sections)) + Len(last) = Len(scan.lines) + 1

\* a scan has returned two sections of which the second was opened by a deeper usage
\* header while the first was open
C22_Witness ==
  /\ scan.pc = "returned"
  /\ Len(scan.sections) = 2
  /\ scan.lines = <<"## Usage", "text", "### Examples">>
  /\ scan.st.inUsageSection

\* the lines from position from on at which a header of level at most level stands
LevelClosers(from, level) ==
  { j \in (from + 1)..Len(scan.lines) :
      IsHeaderLine(scan.lines[j]) /\ HashesOf(scan.lines[j]) <= level }

\* the least position of a set of positions, or the position after the last line
FirstOrEnd(positions) ==
  IF positions = {} THEN Len(scan.lines) + 1
  ELSE CHOOSE j \in positions : \A m \in positions : j <= m

\* the lines the k-th section holds when it runs up to the position before end
LinesUpTo(k, end) == SubSeq(scan.lines, UsageStart(k), end - 1)

\* C23: every returned section holds all lines from its usage header up to, and not
\* including, the next header whose level is less than or equal to the level of the
\* section, or up to the end of the text, headers of greater level included.
C23_SectionRunsToNextSiblingHeader ==
  scan.pc = "returned" =>
    \A k \in 1..Len(scan.sections) :
      split(scan.sections[k], "\n")
        = LinesUpTo(k, FirstOrEnd(LevelClosers(UsageStart(k), HashesOf(scan.lines[UsageStart(k)]))))

\* C23, amended: every returned section holds all lines from its usage header up to,
\* and not including, the next header that is a usage header or whose level is less
\* than or equal to the level of the section, or up to the end of the text; headers
\* of greater level that are not usage headers are included.
C23_SectionRunsToNextUsageOrSiblingHeader ==
  scan.pc = "returned" =>
    \A k \in 1..Len(scan.sections) :
      split(scan.sections[k], "\n")
        = LinesUpTo(k, FirstOrEnd(
            LevelClosers(UsageStart(k), HashesOf(scan.lines[UsageStart(k)]))
              \cup { j \in UsageStarts : j > UsageStart(k) }))

\* a section with a sub-heading in it was closed by a header of its own level
C23_Witness ==
  /\ scan.pc = "returned"
  /\ scan.lines = <<"## Usage", "### Notes", "## License">>
  /\ scan.sections = <<"## Usage\n### Notes">>

\* a line without a leading hash that is a bare usage or examples marker
IsBareUsageLine(line) ==
  /\ At(line, 1) # "#"
  /\ toLowerCase(trimEnd(line)) \in {"usage", "usage:", "example", "examples", "example:", "examples:"}

\* C24: a bare line such as 'Usage:' or 'Examples:' never opens a section: the
\* iteration on it appends it to the open section, or leaves the locals as they are
\* when no section is open; and a text without a hash header of the usage vocabulary
\* yields no section and no example.
C24_BareLineNeverOpens ==
  /\ [](scan.pc = "returned" =>
         (UsageStarts = {} => (scan.sections = <<>> /\ parseUsageExamples(doc, TRUE) = <<>>)))
  /\ [][(/\ scan.pc = "scanning"
         /\ scan'.pc = "scanning"
         /\ scan'.i = scan.i + 1
         /\ IsBareUsageLine(scan.lines[scan'.i]))
        => scan'.st = IF scan.st.inUsageSection
                      THEN [scan.st EXCEPT !.currentSection = Append(@, scan.lines[scan'.i])]
                      ELSE scan.st]_vars

\* a text whose only usage marker is a bare line, followed by a fenced block, was
\* scanned to its end
C24_Witness ==
  /\ scan.pc = "returned"
  /\ scan.lines = <<"Usage:", "~~~rust", "let x = 1;", "~~~">>
  /\ scan.sections = <<>>

(***************************************************************************)
(* extractDescription: the lines after the first description line          *)
(***************************************************************************)

\* the number of lines of a text with continuation lines
MaxAccumLines == 3

\* prose lines of 24 and 144 characters, a short line, a blank line, a header and a
\* badge
AccumFragments ==
  {LongLine(2) \o "\n", LongLine(12) \o "\n", "short\n", "\n", "# Title\n", "![b](u)\n"}

\* the text grows by one line
AccumAppend ==
  /\ phase = "build"
  /\ nfrag < MaxAccumLines
  /\ \E f \in AccumFragments : doc' = doc \o f
  /\ nfrag' = nfrag + 1
  /\ UNCHANGED <<auxVars, netVars, lastIndex, toolVars, blocks, phase, parseVars, cleanVars, description, langVars>>

NextAccum == AccumAppend \/ ExtractDescription

SpecAccum == Init /\ [][NextAccum]_vars

\* line i of the text without its surrounding white space
TrimmedLine(i) == trim(DocLines[i])

IsBlankAt(i) == TrimmedLine(i) = ""

IsHeaderAt(i) == startsWith(TrimmedLine(i), "#")

\* line i is prose of more than 20 characters
IsProseAt(i) ==
  /\ ~IsBlankAt(i)
  /\ ~IsHeaderAt(i)
  /\ ~IsBadgeLine(DocLines[i])
  /\ Len(TrimmedLine(i)) > MinDescriptionLine

\* the index of the line the description starts with, 0 if there is none
SeedIndex ==
  IF \E i \in 1..Len(DocLines) : IsProseAt(i)
  THEN CHOOSE i \in 1..Len(DocLines) : IsProseAt(i) /\ \A k \in 1..(i - 1) : ~IsProseAt(k)
  ELSE 0

\* the least index after the first description line where Stops holds, one past the
\* last line if there is none
EndAfterSeed(Stops(_)) ==
  LET after == {j \in (SeedIndex + 1)..Len(DocLines) : Stops(j)}
  IN IF after = {} THEN Len(DocLines) + 1
     ELSE CHOOSE j \in after : \A k \in after : j <= k

\* the trimmed lines between the first description line and end that Takes selects,
\* in the order of the text
Followers(end, Takes(_)) ==
  LET idx == [i \in 1..(end - SeedIndex - 1) |-> SeedIndex + i]
      taken == SelectSeq(idx, Takes)
  IN [k \in 1..Len(taken) |-> TrimmedLine(taken[k])]

\* seed followed by the longest run of followers, joined by single spaces, where
\* each one is added while the length before it plus its own length is under 300
Accumulated(seed, followers) ==
  LET Joined(m) == join(<<seed>> \o SubSeq(followers, 1, m), " ")
      Fits(m) == \A k \in 1..m : Len(Joined(k - 1)) + Len(followers[k]) < MaxDescription
      m == CHOOSE n \in 0..Len(followers) :
             Fits(n) /\ (n = Len(followers) \/ ~Fits(n + 1))
  IN Joined(m)

\* every non-blank, non-header line up to the first header after the first
\* description line is a continuation
C25_AppendsUntilHeader ==
  (phase = "described" /\ SeedIndex # 0) =>
    LET NotBlankOrHeader(i) == ~IsBlankAt(i) /\ ~IsHeaderAt(i)
    IN description =
         Accumulated(TrimmedLine(SeedIndex),
                     Followers(EndAfterSeed(IsHeaderAt), NotBlankOrHeader))

\* C25: after extractDescription has taken its first description line, each following
\* prose line of more than 20 characters is appended, joined by a single space, as
\* long as the length so far plus the length of the line stays under 300; shorter
\* lines and badge lines are passed over; the first blank line or header line after
\* the first description line ends the accumulation, so no text after it appears in
\* the description.
C25_AppendsUntilBlankOrHeader ==
  (phase = "described" /\ SeedIndex # 0) =>
    LET BlankOrHeader(i) == IsBlankAt(i) \/ IsHeaderAt(i)
    IN description =
         Accumulated(TrimmedLine(SeedIndex),
                     Followers(EndAfterSeed(BlankOrHeader), IsProseAt))

\* a description of two lines, ended by a header
C25_Witness ==
  /\ phase = "described"
  /\ doc = LongLine(2) \o "\n" \o LongLine(12) \o "\n" \o "# Title\n"
  /\ description = trim(LongLine(2)) \o " " \o trim(LongLine(12))

(***************************************************************************)
(* extractExampleDescription: the line before a block                      *)
(***************************************************************************)

\* the number of pieces of a section
MaxExampleFrags == 3

\* a line of 199 characters and one of 200
Line199 == LongLine(16) \o "abcdefg"
Line200 == LongLine(16) \o "abcdefgh"

\* a blank line, a header, prose of 11 and of 10 characters, a bullet item of 11
\* characters, a line of code, the two long lines and a fenced block
ExampleFragments ==
  {"\n", "# Note\n", "Run it now:\n", "tenletters\n", "- Add crate\n", "let x = compute();\n",
   Line199 \o "\n", Line200 \o "\n", RustBlock}

\* one more piece of the section
ExampleAppend ==
  /\ phase = "build"
  /\ nfrag < MaxExampleFrags
  /\ \E f \in ExampleFragments : doc' = doc \o f
  /\ nfrag' = nfrag + 1
  /\ UNCHANGED <<auxVars, netVars, lastIndex, toolVars, blocks, phase, parseVars, cleanVars, description, langVars>>

\* a call extractCodeBlocksFromSection(doc)
ExtractCodeBlocksFromSection ==
  /\ phase = "build"
  /\ examples' = extractCodeBlocksFromSection(doc)
  /\ phase' = "extracted"
  /\ UNCHANGED <<auxVars, netVars, lastIndex, toolVars, docVars, includeExamples, extractionRan,
                 cleanVars, description, langVars>>

NextExample == ExampleAppend \/ ExtractCodeBlocksFromSection

SpecExample == Init /\ [][NextExample]_vars

\* the positions where a block of the section starts
BlockStarts == {i \in 1..Len(doc) : startsWithAt(doc, "~~~rust\n", i)}

\* the position of the k-th block
BlockStart(k) == CHOOSE i \in BlockStarts : Cardinality({j \in BlockStarts : j < i}) = k - 1

\* the lines of the section before the k-th block
LinesBefore(k) == split(SubSeq(doc, 1, BlockStart(k) - 1), "\n")

\* t without a bullet marker and the white space after it
Unbulleted(t) == IF At(t, 1) \in {"*", "-"} THEN trimStart(SubSeq(t, 2, Len(t))) ELSE t

\* what the nearest line before the k-th block that is neither blank nor a header (a
\* line that starts with #) gives as description
NearestLineDescription(k) ==
  LET lines == LinesBefore(k)
      Serves(i) == trim(lines[i]) # "" /\ ~startsWith(trim(lines[i]), "#")
      serving == {i \in 1..Len(lines) : Serves(i)}
  IN IF serving = {} THEN Undefined
     ELSE LET nearest == CHOOSE i \in serving : \A j \in serving : j <= i
              t == trim(lines[nearest])
          IN IF Len(t) > 10 /\ Len(t) < 200 /\ ~looksLikeCode(t)
             THEN [defined |-> TRUE, text |-> Unbulleted(t)]
             ELSE Undefined

\* C26: the description of an example comes from the nearest line before its block
\* that is neither blank nor a header, and from no other line: it is that line without
\* a leading * or - bullet marker when the line has more than 10 and fewer than 200
\* characters and does not look like code, and it is absent otherwise.
C26_DescriptionFromNearestLineOnly ==
  phase = "extracted" =>
    /\ Len(examples) = Cardinality(BlockStarts)
    /\ \A k \in 1..Len(examples) : examples[k].description = NearestLineDescription(k)

\* a bullet item right before the block, prose before it
C26_Witness ==
  /\ phase = "extracted"
  /\ doc = "Run it now:\n" \o "- Add crate\n" \o RustBlock
  /\ Len(examples) = 1
  /\ examples[1].description = [defined |-> TRUE, text |-> "Add crate"]

(***************************************************************************)
(* CODE_BLOCK_PATTERN and opening markers with other tokens                *)
(***************************************************************************)

\* the number of pieces of a section with fenced spans
MaxFenceFrags == 3

\* a block with a one-word tag, one whose tag has an attribute, prose, and an empty
\* block
FenceFragments ==
  {RustBlock, "~~~rust,ignore\nlet a = 1;\n~~~\n", "Some prose here\n", "~~~\n \n~~~\n"}

\* one more piece of the section
FenceAppend ==
  /\ phase = "build"
  /\ nfrag < MaxFenceFrags
  /\ \E f \in FenceFragments : doc' = doc \o f
  /\ nfrag' = nfrag + 1
  /\ UNCHANGED <<auxVars, netVars, lastIndex, toolVars, blocks, phase, parseVars, cleanVars, description, langVars>>

NextFence == FenceAppend \/ ExtractCodeBlocksFromSection

SpecFence == Init /\ [][NextFence]_vars

\* the positions of the fence markers of the section
FenceMarkers == {i \in 1..Len(doc) : startsWithAt(doc, Fence, i)}

\* the position of the n-th marker
FenceMarker(n) == CHOOSE i \in FenceMarkers : Cardinality({j \in FenceMarkers : j < i}) = n - 1

\* the body of the k-th fenced span: the text between the line of its opening marker,
\* the (2k-1)-th marker, and its closing marker, the 2k-th
FencedBody(k) ==
  SubSeq(doc, indexOfFrom(doc, "\n", FenceMarker(2 * k - 1)) + 1, FenceMarker(2 * k) - 1)

\* the trimmed bodies of the fenced spans that are not empty, in the order of the text
NonEmptyFencedSpans ==
  LET bodies == [k \in 1..(Cardinality(FenceMarkers) \div 2) |-> trim(FencedBody(k))]
      NotEmpty(body) == body # ""
  IN SelectSeq(bodies, NotEmpty)

\* C27: within a section the extracted blocks are exactly the non-empty fenced spans,
\* each opening marker paired with the marker that closes it, whatever token follows
\* the opening marker; the code of an example is never text outside the fenced spans.
C27_BlocksAreFencedSpans ==
  phase = "extracted" =>
    /\ Len(examples) = Len(NonEmptyFencedSpans)
    /\ \A k \in 1..Len(examples) : examples[k].code = NonEmptyFencedSpans[k]

(***************************************************************************)
(* withRetry as a process: attempts, sleeps, and how it settles            *)
(***************************************************************************)

\* the largest maxRetries argument of the calls
MaxRetryBudget == 3

\* what operation() can settle to: a value, errors that are thrown on at once, and
\* errors that are retried (by code, by status, and an Error of another class)
OperationOutcomes ==
  {ResolvedText("ok"),
   Rejected(PackageNotFoundError),
   Rejected(VersionNotFoundError),
   Rejected(PackageReadmeMcpError("Unexpected error: x", "UNEXPECTED_ERROR", 0)),
   Rejected(RateLimitError),
   Rejected(NetworkError("Server error")),
   Rejected(PackageReadmeMcpError("HTTP error", "HTTP_ERROR", 418)),
   Rejected(PackageReadmeMcpError("Bad gateway", "UPSTREAM", 502)),
   Rejected(ErrorOf("TypeError", "fetch failed", "", 0))}

\* withRetry(operation, maxRetries) up to its first await: attempt = 1 and operation
\* is invoked; settled keeps what each invocation settled to
WithRetry ==
  /\ retry.pc \in {"idle", "settled"}
  /\ \E maxRetries \in 1..MaxRetryBudget :
       retry' = [pc |-> "attempt", maxRetries |-> maxRetries, attempt |-> 1,
                 invoked |-> 1, sleeps |-> 0, settled |-> <<>>, lastError |-> NoError,
                 outcome |-> Unsettled]
  /\ UNCHANGED <<scan, recovery, netVars, lastIndex, toolVars, docVars, phase, parseVars,
                 cleanVars, description, langVars>>

\* the operation of the attempt settles: withRetry returns its value, throws its
\* error, or starts the sleep before the next attempt
OperationSettles ==
  /\ retry.pc = "attempt"
  /\ \E operation \in OperationOutcomes :
       LET pass == withRetry(operation, retry.attempt, retry.maxRetries)
       IN retry' = [retry EXCEPT
                      !.settled = Append(@, operation),
                      !.lastError = IF operation.state = "rejected" THEN operation.error
                                    ELSE @,
                      !.sleeps = IF pass.state = "pending" THEN @ + 1 ELSE @,
                      !.pc = IF pass.state = "pending" THEN "sleep" ELSE "settled",
                      !.outcome = pass]
  /\ UNCHANGED <<scan, recovery, netVars, lastIndex, toolVars, docVars, phase, parseVars,
                 cleanVars, description, langVars>>

\* the sleep ends: attempt++, and either the loop goes round and invokes operation
\* again or it is left and lastError is thrown
SleepEnds ==
  /\ retry.pc = "sleep"
  /\ retry' = IF retry.attempt + 1 <= retry.maxRetries
              THEN [retry EXCEPT !.pc = "attempt", !.attempt = @ + 1, !.invoked = @ + 1]
              ELSE [retry EXCEPT !.pc = "settled", !.attempt = @ + 1,
                                 !.outcome = Rejected(retry.lastError)]
  /\ UNCHANGED <<scan, recovery, netVars, lastIndex, toolVars, docVars, phase, parseVars,
                 cleanVars, description, langVars>>

NextRetry == WithRetry \/ OperationSettles \/ SleepEnds

\* a pending operation settles (each request has its abort timer) and the timer of a
\* sleep fires
SpecRetry ==
  /\ Init
  /\ [][NextRetry]_vars
  /\ WF_vars(OperationSettles)
  /\ WF_vars(SleepEnds)

\* an error the documented contract has thrown on at once: a PackageNotFoundError, or
\* a PackageReadmeMcpError whose code is none of the three retryable codes and whose
\* status is not 500 or more
ThrownAtOnce(error) ==
  \/ error.name = "PackageNotFoundError"
  \/ /\ isPackageReadmeMcpError(error)
     /\ error.code \notin {"NETWORK_ERROR", "RATE_LIMIT_EXCEEDED", "HTTP_ERROR"}
     /\ ~(error.statusCode >= 500)

\* a call in progress or settled keeps to the contract: operation was invoked between
\* 1 and maxRetries times, one invocation after the other; every invocation but the
\* last failed with an error that is retried and was followed by one sleep; a settled
\* call returns the value of its last invocation, or throws its error, which is one
\* thrown at once or the error of invocation number maxRetries, with no sleep after it
RetryContract ==
  retry.pc # "idle" =>
    LET n == Len(retry.settled)
    IN /\ retry.invoked >= 1
       /\ retry.invoked <= retry.maxRetries
       /\ retry.invoked = IF retry.pc = "attempt" THEN n + 1 ELSE n
       /\ \A k \in 1..(n - 1) :
            /\ retry.settled[k].state = "rejected"
            /\ ~ThrownAtOnce(retry.settled[k].error)
       /\ retry.sleeps = IF retry.pc = "sleep" THEN n ELSE retry.invoked - 1
       /\ retry.pc = "sleep" =>
            /\ retry.settled[n].state = "rejected"
            /\ ~ThrownAtOnce(retry.settled[n].error)
            /\ n < retry.maxRetries
       /\ retry.pc = "settled" =>
            /\ retry.outcome = retry.settled[n]
            /\ \/ retry.outcome.state = "resolved"
               \/ ThrownAtOnce(retry.outcome.error)
               \/ n = retry.maxRetries

\* C28: withRetry(op, maxRetries) always terminates, having invoked op between 1 and
\* maxRetries times in sequence: it returns the value of the first attempt that
\* succeeds and makes no further attempt; it throws on at once, without a sleep, a
\* PackageNotFoundError or a PackageReadmeMcpError that is not retryable; every other
\* error is retried after a sleep, and after maxRetries failed attempts the last error
\* is thrown.
C28_RetriesWithinBudgetAndSettles ==
  /\ []RetryContract
  /\ (retry.pc \in {"attempt", "sleep"}) ~> (retry.pc = "settled")

\* two retried failures, each followed by a sleep, and a third attempt that succeeds
C28_Witness ==
  /\ retry.pc = "settled"
  /\ retry.maxRetries = 3
  /\ retry.invoked = 3
  /\ retry.sleeps = 2
  /\ retry.outcome = ResolvedText("ok")

(***************************************************************************)
(* getPackageReadme: when the cache is read and when it is written         *)
(***************************************************************************)

\* the key of the entry a call with these parameters reads and writes
KeyOf(params) == packageReadmeKey(params.package_name, params.version)

\* every README entry of the cache is a response with exists = true
CachedEntriesExist ==
  \A key \in DOMAIN cache : cache[key].hit => cache[key].value.exists

\* a step that takes up a call which asks the registry: the cache had no entry for it
AsksOnlyAfterMiss ==
  \A params \in pending' \ pending : ~cache[KeyOf(params)].hit

\* a step that returns a value without a call having waited for the registry: the
\* value is the entry of the cache, and the cache is left as it was
HitReturnsEntry ==
  (response' # response /\ response'.kind = "value" /\ pending' = pending) =>
    /\ cache[KeyOf(response'.params)].hit
    /\ response'.value = cache[KeyOf(response'.params)].value
    /\ cache' = cache

\* a step that changes the cache: entries reach the end of their time to live, or a
\* call that waited for the registry returns a response with exists = true and that
\* response is stored under its key
WrittenOnlyOnSuccess ==
  cache' # cache =>
    \/ \A key \in DOMAIN cache : cache'[key] = cache[key] \/ cache'[key] = Miss
    \/ \E params \in pending \ pending' :
         /\ response'.kind = "value"
         /\ response'.params = params
         /\ response'.value.exists
         /\ cache' = [cache EXCEPT ![KeyOf(params)] = [hit |-> TRUE, value |-> response'.value]]

\* C29: getPackageReadme reads the cache before any request and on a hit returns the
\* cached response with no request; it writes the cache only after a complete fetch of
\* an existing crate, never for an exists = false response, a failed validation or a
\* thrown error: every cached README entry has exists = true and failures leave the
\* cache unchanged.
C29_CacheReadFirstWrittenOnSuccess ==
  /\ []CachedEntriesExist
  /\ [][AsksOnlyAfterMiss /\ HitReturnsEntry /\ WrittenOnlyOnSuccess]_vars

\* a call with include_examples = false was answered from the entry a call with
\* include_examples = true had stored
C29_Witness ==
  /\ response.kind = "value"
  /\ ~response.params.include_examples
  /\ response.value.usage_examples # <<>>
  /\ cache[KeyOf(response.params)].hit
  /\ response.value = cache[KeyOf(response.params)].value

(***************************************************************************)
(* ErrorRecovery: the circuit breaker of each context                      *)
(***************************************************************************)

MAX_CONSECUTIVE_ERRORS == 5

\* five minutes, in the unit of now
ERROR_RESET_TIME == 5

\* the largest value of the clock and the largest count of an entry
MaxClock == 6
MaxErrorCount == 6

\* recordError with count++ for every entry the map has, however old it is
recordErrorNeverResets(errorCounts, context, now) ==
  LET errorInfo == errorCounts[context]
  IN IF ~errorInfo.present
     THEN [errorCounts EXCEPT ![context] = [present |-> TRUE, count |-> 1, lastError |-> now]]
     ELSE [errorCounts EXCEPT ![context] =
             [present |-> TRUE, count |-> errorInfo.count + 1, lastError |-> now]]

\* ErrorRecovery.shouldCircuitBreak: the value it returns and the map it leaves
shouldCircuitBreak(errorCounts, context, now) ==
  LET errorInfo == errorCounts[context]
  IN IF ~errorInfo.present
     THEN [value |-> FALSE, errorCounts |-> errorCounts]
     ELSE IF now - errorInfo.lastError > ERROR_RESET_TIME
     THEN [value |-> FALSE, errorCounts |-> [errorCounts EXCEPT ![context] = NoErrorInfo]]
     ELSE [value |-> errorInfo.count >= MAX_CONSECUTIVE_ERRORS, errorCounts |-> errorCounts]

\* ErrorRecovery.recordError: the map it leaves
recordError(errorCounts, context, now) ==
  LET errorInfo == errorCounts[context]
  IN IF ~errorInfo.present \/ now - errorInfo.lastError > ERROR_RESET_TIME
     THEN [errorCounts EXCEPT ![context] = [present |-> TRUE, count |-> 1, lastError |-> now]]
     ELSE [errorCounts EXCEPT ![context] =
             [present |-> TRUE, count |-> errorInfo.count + 1, lastError |-> now]]

\* ErrorRecovery.recordSuccess: the map it leaves
recordSuccess(errorCounts, context) == [errorCounts EXCEPT ![context] = NoErrorInfo]

\* a call errorRecovery.shouldCircuitBreak(context)
ShouldCircuitBreak ==
  /\ \E context \in RecoveryContexts :
       recovery' = [recovery EXCEPT
                      !.errorCounts = shouldCircuitBreak(@, context, recovery.now).errorCounts,
                      !.op = [name |-> "shouldCircuitBreak", context |-> context]]
  /\ UNCHANGED <<scan, retry, netVars, lastIndex, toolVars, docVars, phase, parseVars,
                 cleanVars, description, langVars>>

\* a call errorRecovery.recordError(context)
RecordError ==
  /\ \E context \in RecoveryContexts :
       /\ recovery.errorCounts[context].count < MaxErrorCount
       /\ recovery' = [recovery EXCEPT
                         !.errorCounts = recordError(@, context, recovery.now),
                         !.op = [name |-> "recordError", context |-> context],
                         !.recorded[context] =
                           [streak |-> IF @.streak > 0 /\ recovery.now - @.lastAt <= 5
                                       THEN @.streak + 1 ELSE 1,
                            lastAt |-> recovery.now]]
  /\ UNCHANGED <<scan, retry, netVars, lastIndex, toolVars, docVars, phase, parseVars,
                 cleanVars, description, langVars>>

\* a call errorRecovery.recordSuccess(context)
RecordSuccess ==
  /\ \E context \in RecoveryContexts :
       recovery' = [recovery EXCEPT
                      !.errorCounts = recordSuccess(@, context),
                      !.op = [name |-> "recordSuccess", context |-> context],
                      !.recorded[context] = [streak |-> 0, lastAt |-> 0]]
  /\ UNCHANGED <<scan, retry, netVars, lastIndex, toolVars, docVars, phase, parseVars,
                 cleanVars, description, langVars>>

\* time passes: Date.now() is a minute later, or five minutes later
ClockAdvances ==
  /\ \E minutes \in {1, ERROR_RESET_TIME} :
       /\ recovery.now + minutes <= MaxClock
       /\ recovery' = [recovery EXCEPT !.now = @ + minutes,
                                       !.op = [name |-> "none", context |-> ""]]
  /\ UNCHANGED <<scan, retry, netVars, lastIndex, toolVars, docVars, phase, parseVars,
                 cleanVars, description, langVars>>

NextRecovery == ShouldCircuitBreak \/ RecordError \/ RecordSuccess \/ ClockAdvances

SpecRecovery == Init /\ [][NextRecovery]_vars

\* what shouldCircuitBreak(context) would return now
Breaks(context) ==
  shouldCircuitBreak(recovery.errorCounts, context, recovery.now).value

\* at least 5 recordError calls since the last recordSuccess, each no more than five
\* minutes after the one before, and no more than five minutes since the last
FiveRecentErrors(context) ==
  /\ recovery.recorded[context].streak >= 5
  /\ recovery.now - recovery.recorded[context].lastAt <= 5

\* the breaker of each context is on exactly when the context has five recent errors
BreaksExactlyOnFiveRecentErrors ==
  \A context \in RecoveryContexts : Breaks(context) <=> FiveRecentErrors(context)

\* a call leaves the entries of the other contexts as they were; after a
\* recordSuccess the breaker of the context is off; a recordError that comes more
\* than five minutes after the one before starts the count at 1
RecoveryStep ==
  /\ \A context \in RecoveryContexts :
       recovery'.op.context # context =>
         recovery'.errorCounts[context] = recovery.errorCounts[context]
  /\ recovery'.op.name = "recordSuccess" =>
       ~shouldCircuitBreak(recovery'.errorCounts, recovery'.op.context, recovery'.now).value
  /\ \A context \in RecoveryContexts :
       (/\ recovery'.op = [name |-> "recordError", context |-> context]
        /\ recovery' # recovery
        /\ recovery.recorded[context].streak > 0
        /\ recovery.now - recovery.recorded[context].lastAt > 5)
       => recovery'.errorCounts[context].count = 1

\* C30: ErrorRecovery is a circuit breaker per context: shouldCircuitBreak(c) is true
\* exactly when at least 5 recordError(c) calls have occurred since the last
\* recordSuccess(c), each no more than 5 minutes after the one before, and no more
\* than 5 minutes have passed since the last; recordSuccess(c) makes it false; an error
\* recorded more than 5 minutes after the one before starts the count at 1; no call
\* for one context changes the state of another.
C30_BreakerPerContext ==
  /\ []BreaksExactlyOnFiveRecentErrors
  /\ [][RecoveryStep]_vars

\* five errors of crates.io at once and five minutes later: its breaker is on, the one
\* of github, with one error, is off
C30_Witness ==
  /\ recovery.now = 5
  /\ recovery.errorCounts["crates.io"] = [present |-> TRUE, count |-> 5, lastError |-> 0]
  /\ recovery.errorCounts["github"].count = 1
  /\ Breaks("crates.io")
  /\ ~Breaks("github")

====
